---- MODULE Spec2Model ----
(***************************************************************************)
(* mindmap-cli: recursive-navigation support.                              *)
(*   src/src/context.rs  NavigationContext and DepthGuard                  *)
(*   src/src/cache.rs    MindmapCache (resolve_path, load, clear, stats)   *)
(*   src/src/lib.rs      Mindmap::load / Mindmap::from_string              *)
(* Paths are sequences of components; an absolute path starts with the     *)
(* root component "/".  The file system is a map from canonical paths to   *)
(* nodes (directory, regular file, symbolic link).                         *)
(***************************************************************************)
EXTENDS Integers, Sequences, FiniteSets, TLC

VARIABLES
    depth, max_depth, visited, guards,        \* NavigationContext and its live DepthGuards
    platform, fs, cwd,                        \* build target, file system, working directory
    workspace_root, cache,                    \* MindmapCache
    parse_count,                              \* how often Mindmap::from_string ran, per path
    ret,                                      \* the last call and what it returned
    marking, stack, pc, pend, steps,          \* a traversal that follows external references
    call,                                     \* arguments of the last call, where they are traced
    batch,                                    \* the batch command and its target file
    doc                                       \* a mindmap in memory and the last command on it

ctx_vars == <<depth, max_depth, visited, guards>>
env_vars == <<platform, fs, cwd>>
cache_vars == <<workspace_root, cache, parse_count>>
vars == <<depth, max_depth, visited, guards, platform, fs, cwd,
          workspace_root, cache, parse_count, ret, marking, stack, pc, pend, steps, call, batch,
          doc>>
trav_vars == <<marking, stack, pc, pend, steps>>
aux_vars == <<call, batch, doc>>

(***************************************************************************)
(* Bounds of the model.                                                    *)
(***************************************************************************)
\* largest value given to NavigationContext::with_max_depth
MaxDepthArg == 3
\* how often one path is parsed before the model stops counting
MaxParses == 2
\* symbolic links followed while resolving one path (ELOOP beyond)
MaxLinkHops == 2
\* external references in one file of a traversal
MaxRefs == 2
\* largest max_depth of a traversal
MaxTravDepth == 2

(***************************************************************************)
(* Canonical paths of the modelled file tree.                              *)
(***************************************************************************)
Root == <<"/">>
Ws == <<"/", "ws">>
WsA == <<"/", "ws", "A.md">>
WsB == <<"/", "ws", "B.md">>
WsSub == <<"/", "ws", "sub">>
WsSubM == <<"/", "ws", "sub", "M.md">>
WsLnk == <<"/", "ws", "lnk">>
Etc == <<"/", "etc">>
EtcPasswd == <<"/", "etc", "passwd">>

\* paths a caller marks as visited
VisitPaths == {WsA, WsB, WsSubM}

(***************************************************************************)
(* The file system.  A node is a directory, a regular file (with its size  *)
(* in bytes and the number of node lines in it) or a symbolic link.        *)
(***************************************************************************)
max_file_size == 10 * 1024 * 1024

\* `refs` are the external references of the nodes of a file
Absent == [kind |-> "absent", size |-> 0, nodes |-> 0, refs |-> <<>>, target |-> <<>>]
Dir == [kind |-> "dir", size |-> 4096, nodes |-> 0, refs |-> <<>>, target |-> <<>>]
File(sz, n) == [kind |-> "file", size |-> sz, nodes |-> n, refs |-> <<>>, target |-> <<>>]
Link(t) == [kind |-> "link", size |-> 0, nodes |-> 0, refs |-> <<>>, target |-> t]

FsPaths == {Root, Ws, WsA, WsB, WsSub, WsSubM, WsLnk, Etc, EtcPasswd}

\* /ws/A.md is small, /ws/B.md is exactly max_file_size bytes long,
\* /ws/sub/M.md is one byte longer; /ws/lnk is a symbolic link to t.
FsWithLink(t) ==
    [p \in FsPaths |->
        CASE p \in {Root, Ws, WsSub, Etc} -> Dir
          [] p = WsA -> File(40, 2)
          [] p = WsB -> File(max_file_size, 1)
          [] p = WsSubM -> File(max_file_size + 1, 3)
          [] p = EtcPasswd -> File(100, 0)
          [] p = WsLnk -> Link(t)]

\* where /ws/lnk points: a file inside, a directory outside, itself
LinkTargets == {WsA, Etc, WsLnk}

Node(f, p) == IF p \in DOMAIN f THEN f[p] ELSE Absent

(***************************************************************************)
(* std::path and std::fs as used by cache.rs.                              *)
(***************************************************************************)
IoErr == [ok |-> FALSE, path |-> <<>>]
IoOk(p) == [ok |-> TRUE, path |-> p]

\* Path::starts_with: whole components, not characters
starts_with(p, base) ==
    /\ Len(base) <= Len(p)
    /\ SubSeq(p, 1, Len(base)) = base

\* Path::parent: None for the empty path and for the root
parent(p) ==
    IF p = <<>> \/ p = Root
    THEN [some |-> FALSE, path |-> <<>>]
    ELSE [some |-> TRUE, path |-> SubSeq(p, 1, Len(p) - 1)]

\* Path::join: an absolute right-hand side replaces the left-hand side
join(base, rel) ==
    IF rel # <<>> /\ Head(rel) = "/" THEN rel ELSE base \o rel

\* realpath(3) below `cur`: every component must exist, "." and ".." are
\* eliminated, a symbolic link is replaced by its (absolute) target.
RECURSIVE Walk(_, _, _, _)
Walk(f, cur, rest, hops) ==
    IF rest = <<>> THEN IoOk(cur)
    ELSE IF Node(f, cur).kind # "dir" THEN IoErr
    ELSE LET c == Head(rest)
             next == Append(cur, c)
         IN CASE c = "." -> Walk(f, cur, Tail(rest), hops)
              [] c = ".." ->
                   Walk(f, IF cur = Root THEN Root ELSE SubSeq(cur, 1, Len(cur) - 1),
                        Tail(rest), hops)
              [] OTHER ->
                   CASE Node(f, next).kind = "absent" -> IoErr
                     [] Node(f, next).kind = "link" ->
                          IF hops = 0 THEN IoErr
                          ELSE Walk(f, Root, Tail(Node(f, next).target) \o Tail(rest), hops - 1)
                     [] OTHER -> Walk(f, next, Tail(rest), hops)

\* fs::canonicalize: fails on the empty path, on a missing component, on a
\* file used as a directory and on a link loop; a relative path starts at
\* the working directory.
canonicalize(f, wd, p) ==
    IF p = <<>> THEN IoErr
    ELSE IF Head(p) = "/" THEN Walk(f, Root, Tail(p), MaxLinkHops)
    ELSE Walk(f, wd, p, MaxLinkHops)

\* fs::metadata(..).len()
metadata(f, p) ==
    IF Node(f, p).kind = "absent" THEN [ok |-> FALSE, len |-> 0]
    ELSE [ok |-> TRUE, len |-> Node(f, p).size]

(***************************************************************************)
(* Reference strings.  `lead` is how the string begins: nothing special,   *)
(* a root marker ("/x"), a drive prefix with or without a root ("C:\x",    *)
(* "C:x") or a UNC prefix ("\\srv\share\x"); `segs` are the segments       *)
(* after it.                                                               *)
(***************************************************************************)
Ref(l, s) == [lead |-> l, segs |-> s]

Refs ==
    { Ref("rel", <<"..", "A.md">>),
      Ref("rel", <<".", "..", "B.md">>),
      Ref("rel", <<"M.md">>),
      Ref("rel", <<"..">>),
      Ref("rel", <<"..", "lnk">>),
      Ref("rel", <<"..", "lnk", "passwd">>),
      Ref("rel", <<"..", "..", "etc", "passwd">>),
      Ref("rel", <<"..", "..", "nofile">>),
      Ref("rel", <<"missing.md">>),
      Ref("rel", <<"ws", "A.md">>),
      Ref("rel", <<"A.md">>),
      Ref("rel", <<"passwd">>),
      Ref("root", <<"etc", "passwd">>),
      Ref("root", <<"ws", "A.md">>),
      Ref("drive", <<"ws", "A.md">>),
      Ref("drive_rel", <<"A.md">>),
      Ref("unc", <<"A.md">>) }

\* files that contain references (the base_file argument): nested in the
\* workspace, a bare file name, the root (no parent), outside the workspace
BaseFiles == {WsSubM, <<"A.md">>, Root, EtcPasswd}

\* working directories of the process
WorkDirs == {Root}

Comp(k, n) == [kind |-> k, name |-> n]

\* the components of the segments: ".." is ParentDir, a leading "." is
\* CurDir, any other "." is skipped
SegComps(segs, leading) ==
    LET keep == SelectSeq([i \in 1..Len(segs) |-> <<i, segs[i]>>],
                          LAMBDA e : e[2] # "." \/ (leading /\ e[1] = 1))
    IN [i \in 1..Len(keep) |->
          CASE keep[i][2] = ".." -> Comp("ParentDir", "..")
            [] keep[i][2] = "." -> Comp("CurDir", ".")
            [] OTHER -> Comp("Normal", keep[i][2])]

\* Path::components.  Only a Windows build parses drive and UNC prefixes;
\* a Unix build sees them as the beginning of an ordinary file name.
components(plat, r) ==
    CASE r.lead = "rel" -> SegComps(r.segs, TRUE)
      [] r.lead = "root" -> <<Comp("RootDir", "/")>> \o SegComps(r.segs, FALSE)
      [] r.lead = "drive" ->
           IF plat = "windows"
           THEN <<Comp("Prefix", "C:"), Comp("RootDir", "/")>> \o SegComps(r.segs, FALSE)
           ELSE <<Comp("Normal", "C:")>> \o SegComps(r.segs, FALSE)
      [] r.lead = "drive_rel" ->
           IF plat = "windows"
           THEN <<Comp("Prefix", "C:")>> \o SegComps(r.segs, FALSE)
           ELSE <<Comp("Normal", "C:")>> \o SegComps(r.segs, FALSE)
      [] r.lead = "unc" ->
           IF plat = "windows"
           THEN <<Comp("Prefix", "UNC"), Comp("RootDir", "/")>> \o SegComps(r.segs, FALSE)
           ELSE <<Comp("Normal", "UNC")>> \o SegComps(r.segs, FALSE)

\* Path::is_absolute: on Unix the path has a root; on Windows it has a
\* prefix and a root
is_absolute(plat, r) ==
    LET cs == components(plat, r) IN
    IF plat = "windows"
    THEN Len(cs) >= 2 /\ cs[1].kind = "Prefix" /\ cs[2].kind = "RootDir"
    ELSE Len(cs) >= 1 /\ cs[1].kind = "RootDir"

\* the path a component list spells
PathOf(cs) == [i \in 1..Len(cs) |-> cs[i].name]

(***************************************************************************)
(* NavigationContext (context.rs).                                         *)
(***************************************************************************)
DefaultMaxDepth == 50

\* NavigationContext::new
new_context ==
    /\ depth = 0
    /\ max_depth = DefaultMaxDepth
    /\ visited = {}

\* NavigationContext::with_max_depth
with_max_depth(n) ==
    /\ depth = 0
    /\ max_depth = n
    /\ visited = {}

\* usize::saturating_sub
saturating_sub(a, b) == IF a >= b THEN a - b ELSE 0

\* NavigationContext::at_max_depth
at_max_depth == depth >= max_depth

\* descend that forgets to undo the increment on failure
descend_no_undo ==
    LET d1 == depth + 1 IN
    IF d1 > max_depth
    THEN /\ depth' = d1
         /\ guards' = guards
         /\ ret' = [op |-> "descend", res |-> "RecursionDepthExceeded"]
         /\ UNCHANGED <<max_depth, visited, env_vars, cache_vars>>
    ELSE /\ depth' = d1
         /\ guards' = guards + 1
         /\ ret' = [op |-> "descend", res |-> "Ok"]
         /\ UNCHANGED <<max_depth, visited, env_vars, cache_vars>>

\* descend whose limit test lets one level too many through
descend_limit_plus_one ==
    LET d1 == depth + 1 IN
    IF d1 > max_depth + 1
    THEN /\ depth' = d1 - 1
         /\ guards' = guards
         /\ ret' = [op |-> "descend", res |-> "RecursionDepthExceeded"]
         /\ UNCHANGED <<max_depth, visited, env_vars, cache_vars>>
    ELSE /\ depth' = d1
         /\ guards' = guards + 1
         /\ ret' = [op |-> "descend", res |-> "Ok"]
         /\ UNCHANGED <<max_depth, visited, env_vars, cache_vars>>

\* NavigationContext::descend: increment, then undo and fail when the new
\* depth is above max_depth; a DepthGuard exists only on success.
descend ==
    LET d1 == depth + 1 IN
    IF d1 > max_depth
    THEN /\ depth' = d1 - 1
         /\ guards' = guards
         /\ ret' = [op |-> "descend", res |-> "RecursionDepthExceeded"]
         /\ UNCHANGED <<max_depth, visited, env_vars, cache_vars>>
    ELSE /\ depth' = d1
         /\ guards' = guards + 1
         /\ ret' = [op |-> "descend", res |-> "Ok"]
         /\ UNCHANGED <<max_depth, visited, env_vars, cache_vars>>

\* a guard whose release leaves the depth alone
drop_no_decrement ==
    /\ guards > 0
    /\ depth' = depth
    /\ guards' = guards - 1
    /\ ret' = [op |-> "drop", res |-> "Ok"]
    /\ UNCHANGED <<max_depth, visited, env_vars, cache_vars>>

\* a guard whose release resets the depth
drop_reset ==
    /\ guards > 0
    /\ depth' = 0
    /\ guards' = guards - 1
    /\ ret' = [op |-> "drop", res |-> "Ok"]
    /\ UNCHANGED <<max_depth, visited, env_vars, cache_vars>>

\* a release that also forgets the visited paths
drop_clear_visited ==
    /\ guards > 0
    /\ depth' = saturating_sub(depth, 1)
    /\ guards' = guards - 1
    /\ visited' = {}
    /\ ret' = [op |-> "drop", res |-> "Ok"]
    /\ UNCHANGED <<max_depth, env_vars, cache_vars>>

\* <DepthGuard as Drop>::drop: runs once for a live guard.
drop ==
    /\ guards > 0
    /\ depth' = saturating_sub(depth, 1)
    /\ guards' = guards - 1
    /\ ret' = [op |-> "drop", res |-> "Ok"]
    /\ UNCHANGED <<max_depth, visited, env_vars, cache_vars>>

\* NavigationContext::is_visited
is_visited(p) ==
    /\ ret' = [op |-> "is_visited", res |-> IF p \in visited THEN "true" ELSE "false", arg |-> p]
    /\ UNCHANGED <<ctx_vars, env_vars, cache_vars>>

\* mark_visited that forgets the paths marked before
mark_visited_only(p) ==
    /\ visited' = {p}
    /\ ret' = [op |-> "mark_visited", res |-> "Ok", arg |-> p]
    /\ UNCHANGED <<depth, max_depth, guards, env_vars, cache_vars>>

\* NavigationContext::mark_visited
mark_visited(p) ==
    /\ visited' = visited \cup {p}
    /\ ret' = [op |-> "mark_visited", res |-> "Ok", arg |-> p]
    /\ UNCHANGED <<depth, max_depth, guards, env_vars, cache_vars>>

\* NavigationContext::clear_visited
clear_visited ==
    /\ visited' = {}
    /\ ret' = [op |-> "clear_visited", res |-> "Ok"]
    /\ UNCHANGED <<depth, max_depth, guards, env_vars, cache_vars>>

\* NavigationContext::num_visited
num_visited ==
    /\ ret' = [op |-> "num_visited", res |-> Cardinality(visited)]
    /\ UNCHANGED <<ctx_vars, env_vars, cache_vars>>

NoRet == [op |-> "new", res |-> "Ok"]

(***************************************************************************)
(* Mindmap::load (lib.rs) as far as the cache is concerned.                *)
(***************************************************************************)
NoMindmap == [path |-> <<>>, nodes |-> 0, refs |-> <<>>, id |-> 0]

\* Mindmap::load: fs::read_to_string fails on anything but a regular file;
\* Mindmap::from_string never fails and keeps the path it is given.
mindmap_load(f, p) ==
    IF Node(f, p).kind = "file"
    THEN [ok |-> TRUE, mm |-> [path |-> p, nodes |-> Node(f, p).nodes,
                               refs |-> Node(f, p).refs, id |-> 0]]
    ELSE [ok |-> FALSE, mm |-> NoMindmap]

(***************************************************************************)
(* Mindmap (lib.rs): the lines of a file, the nodes parsed from them and   *)
(* the index from node id to position.  Positions and line indexes count   *)
(* from 1 here and from 0 in the code.  The text of a node line is kept    *)
(* as its parts: id, title (deprecation marker, type prefix and how often  *)
(* it is repeated, name) and description (text, verify tag, references).   *)
(***************************************************************************)
BlankLine == [kind |-> "blank", id |-> 0, title |-> <<>>, desc |-> <<>>]

\* a line that is neither empty nor a node line
TextLine == [kind |-> "text", id |-> 0, title |-> <<>>, desc |-> <<>>]

Title(dep, reps, name) == [dep |-> dep, reps |-> reps, name |-> name]

Desc(text, ver, refs) == [text |-> text, ver |-> ver, refs |-> refs]

\* a title with "**" in it: in a formatted line the title ends there, and
\* what follows is not " - "
HasStars(title) == title.name = "a**b"

\* format!("[{}] **{}** - {}", id, raw_title, description); `kind` is what
\* parse_node_line makes of the text
NodeLine(id, title, desc) ==
    [kind |-> IF HasStars(title) THEN "text" ELSE "node",
     id |-> id, title |-> title, desc |-> desc]

\* extract_refs_from_str(desc, Some(id)): the ids the description refers
\* to, without the node's own id
extract_refs(desc, id) == desc.refs \ {id}

\* parse_node_line
parse_node_line(line, line_index) ==
    IF line.kind = "node"
    THEN [ok |-> TRUE,
          node |-> [id |-> line.id, raw_title |-> line.title, description |-> line.desc,
                    references |-> extract_refs(line.desc, line.id),
                    line_index |-> line_index]]
    ELSE [ok |-> FALSE, node |-> <<>>]

RECURSIVE ParseFrom(_, _, _, _)
\* the loop of Mindmap::from_string over the lines from index i on: a later
\* node with the same id replaces the index entry of an earlier one
ParseFrom(lines, i, nodes, by_id) ==
    IF i > Len(lines) THEN [lines |-> lines, nodes |-> nodes, by_id |-> by_id]
    ELSE LET p == parse_node_line(lines[i], i) IN
         IF p.ok
         THEN ParseFrom(lines, i + 1, Append(nodes, p.node),
                        [k \in DOMAIN by_id \cup {p.node.id} |->
                            IF k = p.node.id THEN Len(nodes) + 1 ELSE by_id[k]])
         ELSE ParseFrom(lines, i + 1, nodes, by_id)

\* Mindmap::from_string on the lines of the content
from_string(lines) == ParseFrom(lines, 1, <<>>, <<>>)

\* the content of a file: its lines, and whether the last one ends in "\n"
Content(lines, nl) == [lines |-> lines, nl |-> nl]

\* str::lines: a final line end makes no line of its own
content_lines(c) == c.lines

\* lines.join("\n") + "\n": no lines at all give one empty line
join_lines(lines) == IF lines = <<>> THEN Content(<<BlankLine>>, TRUE) ELSE Content(lines, TRUE)

Max(S) == CHOOSE x \in S : \A y \in S : y <= x

\* Mindmap::next_id
next_id(mm) == IF DOMAIN mm.by_id = {} THEN 1 ELSE Max(DOMAIN mm.by_id) + 1

MmOk(mm) == [ok |-> TRUE, mm |-> mm]
MmErr(mm) == [ok |-> FALSE, mm |-> mm]

\* cmd_add
cmd_add(mm, title, desc) ==
    LET id == next_id(mm)
        line == NodeLine(id, title, desc)
        node == [id |-> id, raw_title |-> title, description |-> desc,
                 references |-> extract_refs(desc, id),
                 line_index |-> Len(mm.lines) + 1]
    IN MmOk([lines |-> Append(mm.lines, line),
             nodes |-> Append(mm.nodes, node),
             by_id |-> [k \in DOMAIN mm.by_id \cup {id} |->
                           IF k = id THEN Len(mm.nodes) + 1 ELSE mm.by_id[k]]])

\* the node at position idx gets a new title and description and its line
\* is rewritten
Rewrite(mm, idx, title, desc) ==
    LET n == mm.nodes[idx] IN
    [mm EXCEPT !.lines[n.line_index] = NodeLine(n.id, title, desc),
               !.nodes[idx] = [n EXCEPT !.raw_title = title, !.description = desc,
                                        !.references = extract_refs(desc, n.id)]]

\* cmd_deprecate: the title is marked unless it is marked already
cmd_deprecate(mm, id, to) ==
    IF id \notin DOMAIN mm.by_id THEN MmErr(mm)
    ELSE LET idx == mm.by_id[id]
             n == mm.nodes[idx]
         IN IF n.raw_title.dep # 0 THEN MmOk(mm)
            ELSE MmOk([mm EXCEPT
                    !.lines[n.line_index] =
                        NodeLine(n.id, [n.raw_title EXCEPT !.dep = to], n.description),
                    !.nodes[idx].raw_title.dep = to])

\* cmd_verify: the description gets a verify tag unless it has one
cmd_verify(mm, id) ==
    IF id \notin DOMAIN mm.by_id THEN MmErr(mm)
    ELSE LET idx == mm.by_id[id]
             n == mm.nodes[idx]
         IN IF n.description.ver THEN MmOk(mm)
            ELSE MmOk([mm EXCEPT
                    !.lines[n.line_index] =
                        NodeLine(n.id, n.raw_title, [n.description EXCEPT !.ver = TRUE]),
                    !.nodes[idx].description.ver = TRUE])

\* cmd_put with strict = false: the line must parse and carry the same id
cmd_put(mm, id, line) ==
    IF id \notin DOMAIN mm.by_id THEN MmErr(mm)
    ELSE LET idx == mm.by_id[id]
             parsed == parse_node_line(line, mm.nodes[idx].line_index)
         IN IF ~parsed.ok THEN MmErr(mm)
            ELSE IF parsed.node.id # id THEN MmErr(mm)
            ELSE MmOk([mm EXCEPT
                    !.lines[mm.nodes[idx].line_index] = line,
                    !.nodes[idx].raw_title = parsed.node.raw_title,
                    !.nodes[idx].description = parsed.node.description,
                    !.nodes[idx].references = parsed.node.references])

\* Option<T>
None == [some |-> FALSE]
Some(v) == [some |-> TRUE, val |-> v]

\* cmd_patch with strict = false, for a title and a description
cmd_patch(mm, id, name, desc) ==
    IF id \notin DOMAIN mm.by_id THEN MmErr(mm)
    ELSE LET idx == mm.by_id[id]
             n == mm.nodes[idx]
             new_title == IF name.some THEN [n.raw_title EXCEPT !.name = name.val]
                          ELSE n.raw_title
             new_desc == IF desc.some THEN desc.val ELSE n.description
             parsed == parse_node_line(NodeLine(id, new_title, new_desc), n.line_index)
         IN IF ~parsed.ok THEN MmErr(mm)
            ELSE MmOk(Rewrite(mm, idx, new_title, new_desc))

\* sequence s without its i-th element
RemoveAt(s, i) == SubSeq(s, 1, i - 1) \o SubSeq(s, i + 1, Len(s))

\* a cmd_delete that does not look at incoming references
cmd_delete_unchecked(mm, id, force) ==
    IF id \notin DOMAIN mm.by_id THEN MmErr(mm)
    ELSE LET idx == mm.by_id[id]
             incoming_from == {i \in 1..Len(mm.nodes) : id \in mm.nodes[i].references}
         IN IF FALSE THEN MmErr(mm)
            ELSE LET line_idx == mm.nodes[idx].line_index
                     kept == RemoveAt(mm.nodes, idx)
                     moved == [i \in 1..Len(kept) |->
                                 IF kept[i].line_index > line_idx
                                 THEN [kept[i] EXCEPT !.line_index = @ - 1]
                                 ELSE kept[i]]
                 IN MmOk([lines |-> RemoveAt(mm.lines, line_idx),
                          nodes |-> moved,
                          by_id |-> [k \in {moved[i].id : i \in 1..Len(moved)} |->
                                        Max({i \in 1..Len(moved) : moved[i].id = k})]])

\* cmd_delete
cmd_delete(mm, id, force) ==
    IF id \notin DOMAIN mm.by_id THEN MmErr(mm)
    ELSE LET idx == mm.by_id[id]
             incoming_from == {i \in 1..Len(mm.nodes) : id \in mm.nodes[i].references}
         IN IF incoming_from # {} /\ ~force THEN MmErr(mm)
            ELSE LET line_idx == mm.nodes[idx].line_index
                     kept == RemoveAt(mm.nodes, idx)
                     moved == [i \in 1..Len(kept) |->
                                 IF kept[i].line_index > line_idx
                                 THEN [kept[i] EXCEPT !.line_index = @ - 1]
                                 ELSE kept[i]]
                 IN MmOk([lines |-> RemoveAt(mm.lines, line_idx),
                          nodes |-> moved,
                          by_id |-> [k \in {moved[i].id : i \in 1..Len(moved)} |->
                                        Max({i \in 1..Len(moved) : moved[i].id = k})]])

IsNode(lines, i) == i <= Len(lines) /\ lines[i].kind = "node"

RECURSIVE SpacedFrom(_, _, _)
\* the loop of normalize_spacing: an empty line goes between two node
\* lines that are adjacent
SpacedFrom(orig, i, new_lines) ==
    IF i > Len(orig) THEN new_lines
    ELSE SpacedFrom(orig, i + 1,
            IF IsNode(orig, i) /\ IsNode(orig, i + 1)
            THEN new_lines \o <<orig[i], BlankLine>>
            ELSE Append(new_lines, orig[i]))

\* Mindmap::normalize_spacing
normalize_spacing(mm) ==
    IF mm.lines = <<>> THEN mm
    ELSE LET new_lines == SpacedFrom(mm.lines, 1, <<>>) IN
         IF new_lines = mm.lines THEN mm
         ELSE from_string(content_lines(join_lines(new_lines)))

RECURSIVE SkipBlank(_, _)
\* the first index from j on whose line is not empty
SkipBlank(orig, j) ==
    IF j <= Len(orig) /\ orig[j].kind = "blank" THEN SkipBlank(orig, j + 1) ELSE j

RECURSIVE FixSpacingFrom(_, _, _, _)
\* the first loop of apply_fixes: from a node line it looks ahead to the
\* next line that is not empty; if that is a node line it pushes one empty
\* line when there was none or more than one, and goes on from there
FixSpacingFrom(orig, i, new_lines, spacing) ==
    IF i > Len(orig) THEN [lines |-> new_lines, spacing |-> spacing]
    ELSE LET pushed == Append(new_lines, orig[i])
             j == SkipBlank(orig, i + 1)
         IN IF IsNode(orig, i) /\ IsNode(orig, j)
            THEN IF j = i + 1 \/ j > i + 2
                 THEN FixSpacingFrom(orig, j, Append(pushed, BlankLine), Append(spacing, i))
                 ELSE FixSpacingFrom(orig, j, pushed, spacing)
            ELSE FixSpacingFrom(orig, i + 1, pushed, spacing)

\* a title whose type prefix is followed by the same prefix again
HasDupType(title) == title.dep = 0 /\ title.reps >= 2

\* Mindmap::apply_fixes
apply_fixes(mm) ==
    IF mm.lines = <<>> THEN [mm |-> mm, spacing |-> <<>>, title_fixes |-> {}]
    ELSE LET sp == FixSpacingFrom(mm.lines, 1, <<>>, <<>>)
             spaced == IF sp.spacing # <<>>
                       THEN from_string(content_lines(join_lines(sp.lines)))
                       ELSE mm
             dups == {i \in 1..Len(spaced.nodes) : HasDupType(spaced.nodes[i].raw_title)}
             new_lines ==
                 [l \in 1..Len(spaced.lines) |->
                    IF \E i \in dups : spaced.nodes[i].line_index = l
                    THEN LET n == spaced.nodes[CHOOSE i \in dups : spaced.nodes[i].line_index = l]
                         IN NodeLine(n.id, [n.raw_title EXCEPT !.reps = @ - 1], n.description)
                    ELSE spaced.lines[l]]
         IN [mm |-> IF dups # {}
                    THEN from_string(content_lines(join_lines(new_lines)))
                    ELSE spaced,
             spacing |-> sp.spacing,
             title_fixes |-> {spaced.nodes[i].id : i \in dups}]

NoMm == [lines |-> <<>>, nodes |-> <<>>, by_id |-> <<>>]

NoBatch ==
    [pc |-> "idle", stdin |-> FALSE, dry_run |-> FALSE, fix |-> FALSE, input |-> <<>>,
     disk |-> Content(<<>>, FALSE), disk0 |-> Content(<<>>, FALSE),
     base |-> Content(<<>>, FALSE), ops |-> <<>>, i |-> 0, mm |-> NoMm,
     wrote |-> 0, others |-> 0]

\* no command has run on a mindmap in memory
NoDoc ==
    [mm |-> NoMm, prev |-> NoMm, op |-> "none", ok |-> TRUE, id |-> 0, force |-> FALSE,
     n |-> 0, spacing |-> <<>>, title_fixes |-> {}]

\* no batch command and no mindmap in memory
IdleBatch == batch = NoBatch /\ doc = NoDoc

(***************************************************************************)
(* MindmapCache (cache.rs).                                                *)
(***************************************************************************)
EmptyCache == [p \in {} |-> NoMindmap]

\* MindmapCache::new: the canonical root, or the root as given when it
\* cannot be canonicalized
new_cache(root) ==
    /\ workspace_root = (IF canonicalize(fs, cwd, root).ok
                         THEN canonicalize(fs, cwd, root).path
                         ELSE root)
    /\ cache = EmptyCache

\* roots handed to MindmapCache::new
NominalRoots == {Ws, <<"/", "nowhere">>}

Resolved(r, t, p) == [res |-> r, target |-> t, path |-> p]

\* resolve_path without the containment test
resolve_path_unchecked(base_file, relative) ==
    LET comps == components(platform, relative)
        rel_path == PathOf(comps)
    IN IF is_absolute(platform, relative)
       THEN Resolved("AbsolutePathRejected", <<>>, <<>>)
       ELSE IF \E i \in 1..Len(comps) : comps[i].kind \in {"Prefix", "RootDir"}
       THEN Resolved("AbsolutePathRejected", <<>>, <<>>)
       ELSE LET pr == parent(base_file)
                base_dir == IF pr.some THEN pr.path ELSE workspace_root
                cb == canonicalize(fs, cwd, base_dir)
                canonical_base == IF cb.ok THEN cb.path ELSE base_dir
                full_path == join(canonical_base, rel_path)
                canonical == canonicalize(fs, cwd, full_path)
            IN IF ~canonical.ok
               THEN Resolved("PathResolutionFailed", <<>>, <<>>)
               ELSE Resolved("Ok", canonical.path, canonical.path)

\* resolve_path that tests containment on the joined path, before links
\* and ".." are resolved
resolve_path_lexical(base_file, relative) ==
    LET comps == components(platform, relative)
        rel_path == PathOf(comps)
    IN IF is_absolute(platform, relative)
       THEN Resolved("AbsolutePathRejected", <<>>, <<>>)
       ELSE IF \E i \in 1..Len(comps) : comps[i].kind \in {"Prefix", "RootDir"}
       THEN Resolved("AbsolutePathRejected", <<>>, <<>>)
       ELSE LET pr == parent(base_file)
                base_dir == IF pr.some THEN pr.path ELSE workspace_root
                cb == canonicalize(fs, cwd, base_dir)
                canonical_base == IF cb.ok THEN cb.path ELSE base_dir
                full_path == join(canonical_base, rel_path)
                canonical == canonicalize(fs, cwd, full_path)
            IN IF ~canonical.ok
               THEN Resolved("PathResolutionFailed", <<>>, <<>>)
               ELSE IF ~starts_with(full_path, workspace_root)
               THEN Resolved("PathEscape", canonical.path, <<>>)
               ELSE Resolved("Ok", canonical.path, canonical.path)

\* resolve_path that canonicalizes before it looks at the form of the
\* reference
resolve_path_canonicalize_first(base_file, relative) ==
    LET comps == components(platform, relative)
        rel_path == PathOf(comps)
        pr == parent(base_file)
        base_dir == IF pr.some THEN pr.path ELSE workspace_root
        cb == canonicalize(fs, cwd, base_dir)
        canonical_base == IF cb.ok THEN cb.path ELSE base_dir
        canonical == canonicalize(fs, cwd, join(canonical_base, rel_path))
    IN IF ~canonical.ok
       THEN Resolved("PathResolutionFailed", <<>>, <<>>)
       ELSE IF is_absolute(platform, relative)
               \/ \E i \in 1..Len(comps) : comps[i].kind \in {"Prefix", "RootDir"}
       THEN Resolved("AbsolutePathRejected", <<>>, <<>>)
       ELSE IF ~starts_with(canonical.path, workspace_root)
       THEN Resolved("PathEscape", canonical.path, <<>>)
       ELSE Resolved("Ok", canonical.path, canonical.path)

\* MindmapCache::resolve_path.  `target` is the value of `canonical` when
\* the second canonicalize succeeded, `path` the returned path.
resolve_path(base_file, relative) ==
    LET comps == components(platform, relative)
        rel_path == PathOf(comps)
    IN IF is_absolute(platform, relative)
       THEN Resolved("AbsolutePathRejected", <<>>, <<>>)
       ELSE IF \E i \in 1..Len(comps) : comps[i].kind \in {"Prefix", "RootDir"}
       THEN Resolved("AbsolutePathRejected", <<>>, <<>>)
       ELSE LET pr == parent(base_file)
                base_dir == IF pr.some THEN pr.path ELSE workspace_root
                \* canonical_base is canonicalize(base_dir) or, if that
                \* fails, base_dir itself; canonical is canonicalize(full_path)
                full_path(cb) == join(IF cb.ok THEN cb.path ELSE base_dir, rel_path)
            IN CHOOSE resolved \in
               { IF ~canonical.ok
                 THEN Resolved("PathResolutionFailed", <<>>, <<>>)
                 ELSE IF ~starts_with(canonical.path, workspace_root)
                 THEN Resolved("PathEscape", canonical.path, <<>>)
                 ELSE Resolved("Ok", canonical.path, canonical.path) :
                 canonical \in { canonicalize(fs, cwd, full_path(cb)) :
                                   cb \in {canonicalize(fs, cwd, base_dir)} } } : TRUE

\* what a MindmapCache call returned, and the file-system and parser calls
\* it made after resolving the path
CacheRet(o, r, l, t, p, m, calls, v) ==
    [op |-> o, res |-> r, lead |-> l, target |-> t, path |-> p, mm |-> m, io |-> calls,
     vis |-> v]

\* the resolve_path call itself
do_resolve_path(base_file, relative) ==
    \E r \in {resolve_path(base_file, relative)} :
    /\ ret' = CacheRet("resolve_path", r.res, relative.lead, r.target, r.path, NoMindmap, <<>>, {})
    /\ UNCHANGED <<ctx_vars, env_vars, cache_vars>>

\* the value Mindmap::load returned at the n-th load of a path: every load
\* builds a value of its own
Built(mm, n) == [mm EXCEPT !.id = n]

\* HashMap::insert
insert(c, k, v) == [p \in DOMAIN c \cup {k} |-> IF p = k THEN v ELSE c[p]]

\* load that reads and parses without looking into the cache first
load_no_lookup(base_file, relative, vis) ==
    \E r \in {resolve_path(base_file, relative)} :
    LET canonical == r.path
        stat == <<"fs::metadata", canonical>>
        read == <<"fs::read_to_string", canonical>>
        parse == <<"Mindmap::from_string", canonical>>
        fail(kind, calls) ==
            CacheRet("load", kind, relative.lead, r.target, <<>>, NoMindmap, calls, vis)
    IN
    IF r.res # "Ok"
    THEN /\ ret' = fail(r.res, <<>>)
         /\ UNCHANGED <<ctx_vars, env_vars, cache_vars>>
    ELSE IF canonical \in vis
    THEN /\ ret' = fail("CircularReference", <<>>)
         /\ UNCHANGED <<ctx_vars, env_vars, cache_vars>>
    ELSE LET md == metadata(fs, canonical) IN
         IF ~md.ok
         THEN /\ ret' = fail("StatFailed", <<stat>>)
              /\ UNCHANGED <<ctx_vars, env_vars, cache_vars>>
         ELSE IF md.len > max_file_size
         THEN /\ ret' = fail("FileTooLarge", <<stat>>)
              /\ UNCHANGED <<ctx_vars, env_vars, cache_vars>>
         ELSE LET mm == mindmap_load(fs, canonical) IN
              IF ~mm.ok
              THEN /\ ret' = fail("LoadFailed", <<stat, read>>)
                   /\ UNCHANGED <<ctx_vars, env_vars, cache_vars>>
              ELSE /\ parse_count[canonical] < MaxParses
                   /\ parse_count' = [parse_count EXCEPT ![canonical] = @ + 1]
                   /\ cache' = insert(cache, canonical, Built(mm.mm, parse_count'[canonical]))
                   /\ ret' = CacheRet("load", "Ok", relative.lead, r.target,
                                      canonical, cache'[canonical], <<stat, read, parse>>, vis)
                   /\ UNCHANGED <<ctx_vars, env_vars, workspace_root>>

\* load that looks into the cache before it checks for a cycle
load_cache_first(base_file, relative, vis) ==
    \E r \in {resolve_path(base_file, relative)} :
    LET canonical == r.path
        stat == <<"fs::metadata", canonical>>
        read == <<"fs::read_to_string", canonical>>
        parse == <<"Mindmap::from_string", canonical>>
        fail(kind, calls) ==
            CacheRet("load", kind, relative.lead, r.target, <<>>, NoMindmap, calls, vis)
    IN
    IF r.res # "Ok"
    THEN /\ ret' = fail(r.res, <<>>)
         /\ UNCHANGED <<ctx_vars, env_vars, cache_vars>>
    ELSE IF canonical \in DOMAIN cache
    THEN /\ ret' = CacheRet("load", "Ok", relative.lead, r.target, canonical,
                            cache[canonical], <<>>, vis)
         /\ UNCHANGED <<ctx_vars, env_vars, cache_vars>>
    ELSE IF canonical \in vis
    THEN /\ ret' = fail("CircularReference", <<>>)
         /\ UNCHANGED <<ctx_vars, env_vars, cache_vars>>
    ELSE LET md == metadata(fs, canonical) IN
         IF ~md.ok
         THEN /\ ret' = fail("StatFailed", <<stat>>)
              /\ UNCHANGED <<ctx_vars, env_vars, cache_vars>>
         ELSE IF md.len > max_file_size
         THEN /\ ret' = fail("FileTooLarge", <<stat>>)
              /\ UNCHANGED <<ctx_vars, env_vars, cache_vars>>
         ELSE LET mm == mindmap_load(fs, canonical) IN
              IF ~mm.ok
              THEN /\ ret' = fail("LoadFailed", <<stat, read>>)
                   /\ UNCHANGED <<ctx_vars, env_vars, cache_vars>>
              ELSE /\ parse_count[canonical] < MaxParses
                   /\ parse_count' = [parse_count EXCEPT ![canonical] = @ + 1]
                   /\ cache' = insert(cache, canonical, Built(mm.mm, parse_count'[canonical]))
                   /\ ret' = CacheRet("load", "Ok", relative.lead, r.target,
                                      canonical, cache'[canonical], <<stat, read, parse>>, vis)
                   /\ UNCHANGED <<ctx_vars, env_vars, workspace_root>>

\* load without the size check
load_no_size_check(base_file, relative, vis) ==
    \E r \in {resolve_path(base_file, relative)} :
    LET canonical == r.path
        stat == <<"fs::metadata", canonical>>
        read == <<"fs::read_to_string", canonical>>
        parse == <<"Mindmap::from_string", canonical>>
        fail(kind, calls) ==
            CacheRet("load", kind, relative.lead, r.target, <<>>, NoMindmap, calls, vis)
    IN
    IF r.res # "Ok"
    THEN /\ ret' = fail(r.res, <<>>)
         /\ UNCHANGED <<ctx_vars, env_vars, cache_vars>>
    ELSE IF canonical \in vis
    THEN /\ ret' = fail("CircularReference", <<>>)
         /\ UNCHANGED <<ctx_vars, env_vars, cache_vars>>
    ELSE IF canonical \in DOMAIN cache
    THEN /\ ret' = CacheRet("load", "Ok", relative.lead, r.target, canonical,
                            cache[canonical], <<>>, vis)
         /\ UNCHANGED <<ctx_vars, env_vars, cache_vars>>
    ELSE LET md == metadata(fs, canonical) IN
         IF ~md.ok
         THEN /\ ret' = fail("StatFailed", <<stat>>)
              /\ UNCHANGED <<ctx_vars, env_vars, cache_vars>>
         ELSE LET mm == mindmap_load(fs, canonical) IN
              IF ~mm.ok
              THEN /\ ret' = fail("LoadFailed", <<stat, read>>)
                   /\ UNCHANGED <<ctx_vars, env_vars, cache_vars>>
              ELSE /\ parse_count[canonical] < MaxParses
                   /\ parse_count' = [parse_count EXCEPT ![canonical] = @ + 1]
                   /\ cache' = insert(cache, canonical, Built(mm.mm, parse_count'[canonical]))
                   /\ ret' = CacheRet("load", "Ok", relative.lead, r.target,
                                      canonical, cache'[canonical], <<stat, read, parse>>, vis)
                   /\ UNCHANGED <<ctx_vars, env_vars, workspace_root>>

\* a load that keeps only the record it has just parsed
load_evicts(base_file, relative, vis) ==
    \E r \in {resolve_path(base_file, relative)} :
    LET canonical == r.path
        stat == <<"fs::metadata", canonical>>
        read == <<"fs::read_to_string", canonical>>
        parse == <<"Mindmap::from_string", canonical>>
        fail(kind, calls) ==
            CacheRet("load", kind, relative.lead, r.target, <<>>, NoMindmap, calls, vis)
    IN
    IF r.res # "Ok"
    THEN /\ ret' = fail(r.res, <<>>)
         /\ UNCHANGED <<ctx_vars, env_vars, cache_vars>>
    ELSE IF canonical \in vis
    THEN /\ ret' = fail("CircularReference", <<>>)
         /\ UNCHANGED <<ctx_vars, env_vars, cache_vars>>
    ELSE IF canonical \in DOMAIN cache
    THEN /\ ret' = CacheRet("load", "Ok", relative.lead, r.target, canonical,
                            cache[canonical], <<>>, vis)
         /\ UNCHANGED <<ctx_vars, env_vars, cache_vars>>
    ELSE LET md == metadata(fs, canonical) IN
         IF ~md.ok
         THEN /\ ret' = fail("StatFailed", <<stat>>)
              /\ UNCHANGED <<ctx_vars, env_vars, cache_vars>>
         ELSE IF md.len > max_file_size
         THEN /\ ret' = fail("FileTooLarge", <<stat>>)
              /\ UNCHANGED <<ctx_vars, env_vars, cache_vars>>
         ELSE LET mm == mindmap_load(fs, canonical) IN
              IF ~mm.ok
              THEN /\ ret' = fail("LoadFailed", <<stat, read>>)
                   /\ UNCHANGED <<ctx_vars, env_vars, cache_vars>>
              ELSE /\ parse_count[canonical] < MaxParses
                   /\ parse_count' = [parse_count EXCEPT ![canonical] = @ + 1]
                   /\ cache' = insert(EmptyCache, canonical, Built(mm.mm, parse_count'[canonical]))
                   /\ ret' = CacheRet("load", "Ok", relative.lead, r.target,
                                      canonical, cache'[canonical], <<stat, read, parse>>, vis)
                   /\ UNCHANGED <<ctx_vars, env_vars, workspace_root>>

\* a load that reports every failure of the resolution as a failed load
load_wraps_error(base_file, relative, vis) ==
    \E r \in {resolve_path(base_file, relative)} :
    LET canonical == r.path
        stat == <<"fs::metadata", canonical>>
        read == <<"fs::read_to_string", canonical>>
        parse == <<"Mindmap::from_string", canonical>>
        fail(kind, calls) ==
            CacheRet("load", kind, relative.lead, r.target, <<>>, NoMindmap, calls, vis)
    IN
    IF r.res # "Ok"
    THEN /\ ret' = fail("LoadFailed", <<>>)
         /\ UNCHANGED <<ctx_vars, env_vars, cache_vars>>
    ELSE IF canonical \in vis
    THEN /\ ret' = fail("CircularReference", <<>>)
         /\ UNCHANGED <<ctx_vars, env_vars, cache_vars>>
    ELSE IF canonical \in DOMAIN cache
    THEN /\ ret' = CacheRet("load", "Ok", relative.lead, r.target, canonical,
                            cache[canonical], <<>>, vis)
         /\ UNCHANGED <<ctx_vars, env_vars, cache_vars>>
    ELSE LET md == metadata(fs, canonical) IN
         IF ~md.ok
         THEN /\ ret' = fail("StatFailed", <<stat>>)
              /\ UNCHANGED <<ctx_vars, env_vars, cache_vars>>
         ELSE IF md.len > max_file_size
         THEN /\ ret' = fail("FileTooLarge", <<stat>>)
              /\ UNCHANGED <<ctx_vars, env_vars, cache_vars>>
         ELSE LET mm == mindmap_load(fs, canonical) IN
              IF ~mm.ok
              THEN /\ ret' = fail("LoadFailed", <<stat, read>>)
                   /\ UNCHANGED <<ctx_vars, env_vars, cache_vars>>
              ELSE /\ parse_count[canonical] < MaxParses
                   /\ parse_count' = [parse_count EXCEPT ![canonical] = @ + 1]
                   /\ cache' = insert(cache, canonical, Built(mm.mm, parse_count'[canonical]))
                   /\ ret' = CacheRet("load", "Ok", relative.lead, r.target,
                                      canonical, cache'[canonical], <<stat, read, parse>>, vis)
                   /\ UNCHANGED <<ctx_vars, env_vars, workspace_root>>

\* a load that also refuses a file of exactly max_file_size bytes
load_inclusive_limit(base_file, relative, vis) ==
    \E r \in {resolve_path(base_file, relative)} :
    LET canonical == r.path
        stat == <<"fs::metadata", canonical>>
        read == <<"fs::read_to_string", canonical>>
        parse == <<"Mindmap::from_string", canonical>>
        fail(kind, calls) ==
            CacheRet("load", kind, relative.lead, r.target, <<>>, NoMindmap, calls, vis)
    IN
    IF r.res # "Ok"
    THEN /\ ret' = fail(r.res, <<>>)
         /\ UNCHANGED <<ctx_vars, env_vars, cache_vars>>
    ELSE IF canonical \in vis
    THEN /\ ret' = fail("CircularReference", <<>>)
         /\ UNCHANGED <<ctx_vars, env_vars, cache_vars>>
    ELSE IF canonical \in DOMAIN cache
    THEN /\ ret' = CacheRet("load", "Ok", relative.lead, r.target, canonical,
                            cache[canonical], <<>>, vis)
         /\ UNCHANGED <<ctx_vars, env_vars, cache_vars>>
    ELSE LET md == metadata(fs, canonical) IN
         IF ~md.ok
         THEN /\ ret' = fail("StatFailed", <<stat>>)
              /\ UNCHANGED <<ctx_vars, env_vars, cache_vars>>
         ELSE IF md.len >= max_file_size
         THEN /\ ret' = fail("FileTooLarge", <<stat>>)
              /\ UNCHANGED <<ctx_vars, env_vars, cache_vars>>
         ELSE LET mm == mindmap_load(fs, canonical) IN
              IF ~mm.ok
              THEN /\ ret' = fail("LoadFailed", <<stat, read>>)
                   /\ UNCHANGED <<ctx_vars, env_vars, cache_vars>>
              ELSE /\ parse_count[canonical] < MaxParses
                   /\ parse_count' = [parse_count EXCEPT ![canonical] = @ + 1]
                   /\ cache' = insert(cache, canonical, Built(mm.mm, parse_count'[canonical]))
                   /\ ret' = CacheRet("load", "Ok", relative.lead, r.target,
                                      canonical, cache'[canonical], <<stat, read, parse>>, vis)
                   /\ UNCHANGED <<ctx_vars, env_vars, workspace_root>>

\* MindmapCache::load
load(base_file, relative, vis) ==
    \E r \in {resolve_path(base_file, relative)} :
    LET canonical == r.path
        stat == <<"fs::metadata", canonical>>
        read == <<"fs::read_to_string", canonical>>
        parse == <<"Mindmap::from_string", canonical>>
        fail(kind, calls) ==
            CacheRet("load", kind, relative.lead, r.target, <<>>, NoMindmap, calls, vis)
    IN
    IF r.res # "Ok"
    THEN /\ ret' = fail(r.res, <<>>)
         /\ UNCHANGED <<ctx_vars, env_vars, cache_vars>>
    ELSE IF canonical \in vis
    THEN /\ ret' = fail("CircularReference", <<>>)
         /\ UNCHANGED <<ctx_vars, env_vars, cache_vars>>
    ELSE IF canonical \in DOMAIN cache
    THEN /\ ret' = CacheRet("load", "Ok", relative.lead, r.target, canonical,
                            cache[canonical], <<>>, vis)
         /\ UNCHANGED <<ctx_vars, env_vars, cache_vars>>
    ELSE LET md == metadata(fs, canonical) IN
         IF ~md.ok
         THEN /\ ret' = fail("StatFailed", <<stat>>)
              /\ UNCHANGED <<ctx_vars, env_vars, cache_vars>>
         ELSE IF md.len > max_file_size
         THEN /\ ret' = fail("FileTooLarge", <<stat>>)
              /\ UNCHANGED <<ctx_vars, env_vars, cache_vars>>
         ELSE LET mm == mindmap_load(fs, canonical) IN
              IF ~mm.ok
              THEN /\ ret' = fail("LoadFailed", <<stat, read>>)
                   /\ UNCHANGED <<ctx_vars, env_vars, cache_vars>>
              ELSE /\ parse_count[canonical] < MaxParses
                   /\ parse_count' = [parse_count EXCEPT ![canonical] = @ + 1]
                   /\ cache' = insert(cache, canonical, Built(mm.mm, parse_count'[canonical]))
                   /\ ret' = CacheRet("load", "Ok", relative.lead, r.target,
                                      canonical, cache'[canonical], <<stat, read, parse>>, vis)
                   /\ UNCHANGED <<ctx_vars, env_vars, workspace_root>>

\* MindmapCache::clear
clear ==
    /\ cache' = EmptyCache
    /\ ret' = [op |-> "clear", res |-> "Ok"]
    /\ UNCHANGED <<ctx_vars, env_vars, workspace_root, parse_count>>

RECURSIVE SumNodes(_, _)
SumNodes(c, keys) ==
    IF keys = {} THEN 0
    ELSE LET k == CHOOSE x \in keys : TRUE
         IN c[k].nodes + SumNodes(c, keys \ {k})

\* stats that counts the loads made instead of the entries held
stats_of_loads ==
    /\ ret' = [op |-> "stats", res |-> "Ok",
               num_cached |-> Cardinality({p \in FsPaths : parse_count[p] > 0}),
               total_nodes |-> SumNodes(cache, DOMAIN cache)]
    /\ UNCHANGED <<ctx_vars, env_vars, cache_vars>>

\* MindmapCache::stats
stats ==
    /\ ret' = [op |-> "stats", res |-> "Ok",
               num_cached |-> Cardinality(DOMAIN cache),
               total_nodes |-> SumNodes(cache, DOMAIN cache)]
    /\ UNCHANGED <<ctx_vars, env_vars, cache_vars>>

\* visited sets handed to load
VisitedArgs == {{}, {WsA}}

\* no call is traced
NoArgs == [base |-> <<>>, rel |-> <<>>, origin |-> <<>>]

\* no traversal
IdleTrav ==
    /\ marking = FALSE
    /\ stack = <<>>
    /\ pc = "idle"
    /\ steps = 0
    /\ pend = [target |-> <<>>, held |-> FALSE]
    /\ call = NoArgs

\* a context that is not used
IdleCtx ==
    /\ new_context
    /\ guards = 0

\* an environment and a cache that are not used
IdleCache ==
    /\ platform = "unix"
    /\ fs = FsWithLink(WsA)
    /\ cwd = Root
    /\ new_cache(Ws)
    /\ parse_count = [p \in FsPaths |-> 0]

Init ==
    /\ IdleCtx
    /\ platform \in {"unix", "windows"}
    /\ fs \in {FsWithLink(t) : t \in LinkTargets}
    /\ cwd \in WorkDirs
    /\ \E root \in NominalRoots : new_cache(root)
    /\ parse_count = [p \in FsPaths |-> 0]
    /\ ret = NoRet
    /\ IdleTrav
    /\ IdleBatch

Next ==
    \/ \E b \in BaseFiles, r \in Refs, v \in VisitedArgs :
          load(b, r, v) /\ UNCHANGED <<trav_vars, aux_vars>>
    \/ \E b \in BaseFiles, r \in Refs :
          do_resolve_path(b, r) /\ UNCHANGED <<trav_vars, aux_vars>>
    \/ clear /\ UNCHANGED <<trav_vars, aux_vars>>
    \/ stats /\ UNCHANGED <<trav_vars, aux_vars>>

Spec == Init /\ [][Next]_vars

(***************************************************************************)
(* The same cache with the arguments of every call on record, over fewer   *)
(* base files and references.                                              *)
(***************************************************************************)
\* the arguments of this call, and for every cache key the arguments and
\* the result of the load that made it a key
Args(b, r) ==
    [base |-> b, rel |-> r,
     origin |-> [k \in DOMAIN cache' |->
                    IF k \in DOMAIN cache /\ k \in DOMAIN call.origin
                    THEN call.origin[k]
                    ELSE [base |-> b, rel |-> r, mm |-> ret'.mm]]]

\* spellings of /ws/A.md, /ws/B.md and /ws/sub/M.md, a directory, a missing
\* file inside the workspace and outside of it, a file outside, an
\* absolute path to a missing file
TracedRefs ==
    { Ref("rel", <<"..", "A.md">>),
      Ref("rel", <<"..", "sub", "..", "A.md">>),
      Ref("rel", <<"..", "lnk">>),
      Ref("rel", <<".", "..", "B.md">>),
      Ref("rel", <<"M.md">>),
      Ref("rel", <<"..">>),
      Ref("rel", <<"missing.md">>),
      Ref("rel", <<"..", "..", "nofile">>),
      Ref("rel", <<"..", "..", "etc", "passwd">>),
      Ref("root", <<"nofile">>),
      Ref("drive", <<"nofile">>) }

TracedBases == {WsSubM}

NextTraced ==
    \/ \E b \in TracedBases, r \in TracedRefs, v \in VisitedArgs :
          load(b, r, v) /\ call' = Args(b, r) /\ UNCHANGED <<trav_vars, batch, doc>>
    \/ \E b \in TracedBases, r \in TracedRefs :
          do_resolve_path(b, r) /\ call' = Args(b, r) /\ UNCHANGED <<trav_vars, batch, doc>>
    \/ clear /\ call' = NoArgs /\ UNCHANGED <<trav_vars, batch, doc>>
    \/ stats /\ call' = [call EXCEPT !.base = <<>>, !.rel = <<>>] /\ UNCHANGED <<trav_vars, batch, doc>>

SpecTraced == Init /\ [][NextTraced]_vars

(***************************************************************************)
(* The same cache while other processes change the files of the workspace  *)
(* between two calls.                                                      *)
(***************************************************************************)
ChangingRefs ==
    { Ref("rel", <<"..", "A.md">>),
      Ref("rel", <<"..", "lnk">>),
      Ref("rel", <<".", "..", "B.md">>) }

ChangedPaths == {WsA, WsB}

\* what a path can become: nothing, a directory, a file that is too large,
\* a small file with other content
ChangedNodes == {Absent, Dir, File(max_file_size + 1, 2), File(50, 4)}

\* another process replaces what is at path p
FsChange(p, n) ==
    /\ fs[p] # n
    /\ fs' = [fs EXCEPT ![p] = n]
    /\ UNCHANGED <<ctx_vars, platform, cwd, cache_vars, ret>>

InitChanging ==
    /\ IdleCtx
    /\ IdleCache
    /\ ret = NoRet
    /\ IdleTrav
    /\ IdleBatch

NextChanging ==
    \/ \E b \in TracedBases, r \in ChangingRefs, v \in VisitedArgs :
          load(b, r, v) /\ call' = Args(b, r) /\ UNCHANGED <<trav_vars, batch, doc>>
    \/ clear /\ call' = NoArgs /\ UNCHANGED <<trav_vars, batch, doc>>
    \/ \E p \in ChangedPaths, n \in ChangedNodes :
          FsChange(p, n) /\ UNCHANGED <<trav_vars, aux_vars>>

SpecChanging == InitChanging /\ [][NextChanging]_vars

(***************************************************************************)
(* The same cache called with base files that have no directory part: a    *)
(* bare file name, and the root.  The process runs in / or in /ws.         *)
(***************************************************************************)
AnchorBases == {<<"A.md">>, Root, WsSubM}

AnchorRefs ==
    { Ref("rel", <<"A.md">>),
      Ref("rel", <<"ws", "A.md">>),
      Ref("rel", <<"sub", "M.md">>),
      Ref("rel", <<"missing.md">>),
      Ref("rel", <<"..", "A.md">>) }

AnchorDirs == {Root, Ws}

InitAnchor ==
    /\ IdleCtx
    /\ platform = "unix"
    /\ fs = FsWithLink(WsA)
    /\ cwd \in AnchorDirs
    /\ \E root \in NominalRoots : new_cache(root)
    /\ parse_count = [p \in FsPaths |-> 0]
    /\ ret = NoRet
    /\ IdleTrav
    /\ IdleBatch

NextAnchor ==
    \/ \E b \in AnchorBases, r \in AnchorRefs :
          load(b, r, {}) /\ call' = Args(b, r) /\ UNCHANGED <<trav_vars, batch, doc>>
    \/ \E b \in AnchorBases, r \in AnchorRefs :
          do_resolve_path(b, r) /\ call' = Args(b, r) /\ UNCHANGED <<trav_vars, batch, doc>>
    \/ clear /\ call' = NoArgs /\ UNCHANGED <<trav_vars, batch, doc>>

SpecAnchor == InitAnchor /\ [][NextAnchor]_vars

InitCtx ==
    /\ \/ new_context
       \/ \E n \in 0..MaxDepthArg : with_max_depth(n)
    /\ guards = 0
    /\ IdleCache
    /\ IdleTrav
    /\ IdleBatch
    /\ ret = NoRet

NextCtx ==
    \/ descend /\ UNCHANGED <<trav_vars, aux_vars>>
    \/ drop /\ UNCHANGED <<trav_vars, aux_vars>>
    \/ \E p \in VisitPaths : is_visited(p) /\ UNCHANGED <<trav_vars, aux_vars>>
    \/ \E p \in VisitPaths : mark_visited(p) /\ UNCHANGED <<trav_vars, aux_vars>>
    \/ clear_visited /\ UNCHANGED <<trav_vars, aux_vars>>
    \/ num_visited /\ UNCHANGED <<trav_vars, aux_vars>>

SpecCtx == InitCtx /\ [][NextCtx]_vars

(***************************************************************************)
(* A command handler that follows external references: for each reference  *)
(* of the current file it checks the visited set, descends, loads the      *)
(* target through the cache, recurses into it and releases the guard when  *)
(* the recursive step is over, however it ends.                            *)
(***************************************************************************)
\* the references the files of a traversal contain
TravRefs == {Ref("rel", <<"A.md">>), Ref("rel", <<"B.md">>)}

RefSeqs == UNION {[1..n -> TravRefs] : n \in 0..MaxRefs}

\* /ws/A.md and /ws/B.md with the given external references
FsTrav(ra, rb) ==
    [FsWithLink(WsA) EXCEPT ![WsA].refs = ra, ![WsB].refs = rb]

NoPend == [target |-> <<>>, held |-> FALSE]

Frame(f, rs, g) == [file |-> f, refs |-> rs, i |-> 1, guard |-> g]

Top == stack[Len(stack)]

Pop == SubSeq(stack, 1, Len(stack) - 1)

\* the frame on top moves on to its next reference
Advance(st) == [st EXCEPT ![Len(st)].i = @ + 1]

\* nothing is called
NoCall == UNCHANGED <<ctx_vars, env_vars, cache_vars, ret>>

\* the handler has taken one more step
Tick == steps' = steps + 1

\* the number of recursive steps that are nested in one another
Nesting == IF stack = <<>> THEN 0 ELSE Len(stack) - 1

\* the handler has read the start file itself
TravStart ==
    /\ pc = "start"
    /\ Tick
    /\ IF marking THEN mark_visited(WsA) ELSE NoCall
    /\ stack' = <<Frame(WsA, fs[WsA].refs, FALSE)>>
    /\ pc' = "next"
    /\ UNCHANGED <<marking, pend>>

\* cycle check for the next reference of the current file
TravCheck ==
    /\ pc = "next"
    /\ Tick
    /\ Top.i <= Len(Top.refs)
    /\ \E r \in {resolve_path(Top.file, Top.refs[Top.i])} :
       IF r.res # "Ok"
       THEN /\ do_resolve_path(Top.file, Top.refs[Top.i])
            /\ pc' = "fail"
            /\ pend' = NoPend
       ELSE /\ is_visited(r.path)
            /\ pc' = IF r.path \in visited THEN "fail" ELSE "descend"
            /\ pend' = [target |-> r.path, held |-> FALSE]
    /\ UNCHANGED <<marking, stack>>

\* depth check
TravDescend ==
    /\ pc = "descend"
    /\ Tick
    /\ descend
    /\ pc' = IF ret'.res = "Ok" THEN "load" ELSE "fail"
    /\ pend' = [pend EXCEPT !.held = (ret'.res = "Ok")]
    /\ UNCHANGED <<marking, stack>>

\* load of the target through the cache
TravLoad ==
    /\ pc = "load"
    /\ Tick
    /\ load(Top.file, Top.refs[Top.i], visited)
    /\ pc' = IF ret'.res = "Ok" THEN "enter" ELSE "fail"
    /\ UNCHANGED <<marking, stack, pend>>

\* the recursive step into the loaded file begins
TravEnter ==
    /\ pc = "enter"
    /\ Tick
    /\ IF marking THEN mark_visited(pend.target) ELSE NoCall
    /\ stack' = Append(stack, Frame(pend.target, cache[pend.target].refs, TRUE))
    /\ pend' = NoPend
    /\ pc' = "next"
    /\ UNCHANGED marking

\* a reference failed: the guard, if one was handed out, is released; the
\* handler skips the reference or gives the whole command up
TravFail ==
    /\ pc = "fail"
    /\ Tick
    /\ IF pend.held THEN drop ELSE NoCall
    /\ pend' = NoPend
    /\ \/ /\ stack' = Advance(stack)
          /\ pc' = "next"
       \/ /\ stack' = stack
          /\ pc' = "unwind"
    /\ UNCHANGED marking

\* the current file has no reference left: the recursive step returns and
\* its guard is released
TravReturn ==
    /\ pc = "next"
    /\ Tick
    /\ Top.i > Len(Top.refs)
    /\ IF Top.guard THEN drop ELSE NoCall
    /\ IF Len(stack) = 1
       THEN /\ stack' = <<>>
            /\ pc' = "done"
       ELSE /\ stack' = Advance(Pop)
            /\ pc' = "next"
    /\ UNCHANGED <<marking, pend>>

\* a failure propagates: every recursive step on the stack ends and
\* releases its guard
TravUnwind ==
    /\ pc = "unwind"
    /\ Tick
    /\ IF stack = <<>>
       THEN /\ NoCall
            /\ pc' = "failed"
            /\ stack' = stack
       ELSE /\ IF Top.guard THEN drop ELSE NoCall
            /\ stack' = Pop
            /\ pc' = "unwind"
    /\ UNCHANGED <<marking, pend>>

InitTrav ==
    /\ \E n \in 0..MaxTravDepth : with_max_depth(n)
    /\ guards = 0
    /\ platform = "unix"
    /\ cwd = Root
    /\ fs \in {FsTrav(ra, rb) : ra \in RefSeqs, rb \in RefSeqs}
    /\ new_cache(Ws)
    /\ parse_count = [p \in FsPaths |-> 0]
    /\ ret = NoRet
    /\ marking \in BOOLEAN
    /\ stack = <<>>
    /\ pc = "start"
    /\ pend = NoPend
    /\ steps = 0
    /\ call = NoArgs
    /\ IdleBatch

NextTrav ==
    \/ TravStart /\ UNCHANGED aux_vars
    \/ TravCheck /\ UNCHANGED aux_vars
    \/ TravDescend /\ UNCHANGED aux_vars
    \/ TravLoad /\ UNCHANGED aux_vars
    \/ TravEnter /\ UNCHANGED aux_vars
    \/ TravFail /\ UNCHANGED aux_vars
    \/ TravReturn /\ UNCHANGED aux_vars
    \/ TravUnwind /\ UNCHANGED aux_vars

SpecTrav == InitTrav /\ [][NextTrav]_vars

(***************************************************************************)
(* The same handler on four files: /ws/A.md refers to B.md and C.md, and   *)
(* B.md, C.md and D.md refer to the files given.                           *)
(***************************************************************************)
WsC == <<"/", "ws", "C.md">>
WsD == <<"/", "ws", "D.md">>

DiamondPaths == FsPaths \cup {WsC, WsD}

RefTo(name) == Ref("rel", <<name>>)

DiamondRefs == {RefTo("A.md"), RefTo("B.md"), RefTo("C.md"), RefTo("D.md")}

FsGraph(rb, rc, rd) ==
    [p \in DiamondPaths |->
        CASE p = WsA -> [File(40, 2) EXCEPT !.refs = <<RefTo("B.md"), RefTo("C.md")>>]
          [] p = WsB -> [File(30, 1) EXCEPT !.refs = rb]
          [] p = WsC -> [File(20, 1) EXCEPT !.refs = rc]
          [] p = WsD -> [File(10, 1) EXCEPT !.refs = rd]
          [] OTHER -> FsWithLink(WsA)[p]]

\* A -> B, A -> C, B -> D, C -> D
FsDiamond == FsGraph(<<RefTo("D.md")>>, <<RefTo("D.md")>>, <<>>)

InitDiamond ==
    /\ \E n \in 0..MaxTravDepth : with_max_depth(n)
    /\ guards = 0
    /\ platform = "unix"
    /\ cwd = Root
    /\ fs \in {FsGraph(<<x>>, <<y>>, rd) :
                  x \in DiamondRefs, y \in DiamondRefs, rd \in {<<>>, <<RefTo("A.md")>>}}
    /\ new_cache(Ws)
    /\ parse_count = [p \in DiamondPaths |-> 0]
    /\ ret = NoRet
    /\ marking \in BOOLEAN
    /\ stack = <<>>
    /\ pc = "start"
    /\ pend = NoPend
    /\ steps = 0
    /\ call = NoArgs
    /\ IdleBatch

SpecDiamond == InitDiamond /\ [][NextTrav]_vars

(***************************************************************************)
(* The batch command (lib.rs, run, Commands::Batch).  `batch` holds the    *)
(* target file on disk, the command line, the input and the locals of the  *)
(* handler.                                                                *)
(***************************************************************************)
\* largest number of operation lines in the input of a batch
MaxOps == 2
\* how often another process writes the target file during a batch
MaxOtherWrites == 1

\* blake3_hash: contents with the same hash are taken to be the same
blake3_hash(content) == <<"blake3", content>>

N1 == NodeLine(1, Title(0, 2, "x"), Desc("a", FALSE, {}))
N2 == NodeLine(2, Title(0, 1, "y"), Desc("b", FALSE, {1}))

\* target files: two adjacent node lines; text, node lines separated by two
\* empty lines and no line end after the last line
TargetFiles ==
    { Content(<<N1, N2>>, TRUE),
      Content(<<TextLine, N1, BlankLine, BlankLine, N2>>, FALSE) }

\* what another process writes
OtherFiles == { Content(<<NodeLine(1, Title(0, 1, "z"), Desc("c", FALSE, {}))>>, TRUE) }

\* lines of the batch input
OpLines ==
    { [op |-> "add", title |-> Title(0, 1, "n"), desc |-> Desc("d", FALSE, {1})],
      [op |-> "patch", id |-> 1, name |-> Some("p"), desc |-> None],
      [op |-> "patch", id |-> 9, name |-> None, desc |-> Some(Desc("d", FALSE, {}))],
      [op |-> "put", id |-> 1, line |-> NodeLine(1, Title(0, 1, "q"), Desc("e", FALSE, {2}))],
      [op |-> "put", id |-> 1, line |-> N2],
      [op |-> "delete", id |-> 1, force |-> FALSE],
      [op |-> "delete", id |-> 2, force |-> FALSE],
      [op |-> "delete", id |-> 1, force |-> TRUE],
      [op |-> "deprecate", id |-> 2, to |-> 1],
      [op |-> "verify", id |-> 3],
      [op |-> "unknown"] }

Inputs == UNION {[1..n -> OpLines] : n \in 0..MaxOps}

\* parse_batch_op_line
parse_batch_op_line(line) ==
    IF line.op \in {"add", "patch", "put", "delete", "deprecate", "verify"}
    THEN [ok |-> TRUE, op |-> line]
    ELSE [ok |-> FALSE, op |-> line]

\* one arm of the replay loop
apply_op(mm, op) ==
    CASE op.op = "add" -> cmd_add(mm, op.title, op.desc)
      [] op.op = "patch" -> cmd_patch(mm, op.id, op.name, op.desc)
      [] op.op = "put" -> cmd_put(mm, op.id, op.line)
      [] op.op = "delete" -> cmd_delete(mm, op.id, op.force)
      [] op.op = "deprecate" -> cmd_deprecate(mm, op.id, op.to)
      [] op.op = "verify" -> cmd_verify(mm, op.id)

\* a command line, an input and a target file
NewBatch(stdin, dry_run, fix, input, file) ==
    [NoBatch EXCEPT !.pc = "start", !.stdin = stdin, !.dry_run = dry_run, !.fix = fix,
                    !.input = input, !.disk = file, !.disk0 = file]

nav_vars == <<ctx_vars, env_vars, cache_vars, ret, trav_vars, call, doc>>

BatchOver == batch.pc \in {"done", "dry", "failed"}

\* the path is "-" (refused), or the base content is read and hashed
BatchBegin ==
    /\ batch.pc = "start"
    /\ batch' = IF batch.stdin
                THEN [batch EXCEPT !.pc = "failed"]
                ELSE [batch EXCEPT !.pc = "parse", !.base = batch.disk]
    /\ UNCHANGED nav_vars

\* the input is parsed line by line; then the working copy is built from
\* the base content
BatchParse ==
    /\ batch.pc = "parse"
    /\ batch' = IF \E k \in 1..Len(batch.input) : ~parse_batch_op_line(batch.input[k]).ok
                THEN [batch EXCEPT !.pc = "failed"]
                ELSE [batch EXCEPT
                        !.pc = "replay",
                        !.ops = [k \in 1..Len(batch.input) |->
                                    parse_batch_op_line(batch.input[k]).op],
                        !.i = 1,
                        !.mm = from_string(content_lines(batch.base))]
    /\ UNCHANGED nav_vars

\* the replay loop that saves the working copy after every operation
BatchApply_write_through ==
    /\ batch.pc = "replay"
    /\ batch.i <= Len(batch.ops)
    /\ \E r \in {apply_op(batch.mm, batch.ops[batch.i])} :
          batch' = IF r.ok
                   THEN [batch EXCEPT !.mm = r.mm, !.i = @ + 1,
                                      !.disk = join_lines(r.mm.lines), !.wrote = @ + 1]
                   ELSE [batch EXCEPT !.pc = "failed"]
    /\ UNCHANGED nav_vars

\* one round of the replay loop, on the working copy
BatchApply ==
    /\ batch.pc = "replay"
    /\ batch.i <= Len(batch.ops)
    /\ \E r \in {apply_op(batch.mm, batch.ops[batch.i])} :
          batch' = IF r.ok
                   THEN [batch EXCEPT !.mm = r.mm, !.i = @ + 1]
                   ELSE [batch EXCEPT !.pc = "failed"]
    /\ UNCHANGED nav_vars

\* after the loop: the fixes if asked for, the lint (warnings only), and
\* with --dry-run the printing of the result
BatchFinish ==
    /\ batch.pc = "replay"
    /\ batch.i > Len(batch.ops)
    /\ batch' = [batch EXCEPT
                    !.mm = IF batch.fix THEN apply_fixes(batch.mm).mm ELSE batch.mm,
                    !.pc = IF batch.dry_run THEN "dry" ELSE "commit"]
    /\ UNCHANGED nav_vars

\* the file is read again and its hash compared with the base hash
BatchRecheck ==
    /\ batch.pc = "commit"
    /\ batch' = IF blake3_hash(batch.disk) # blake3_hash(batch.base)
                THEN [batch EXCEPT !.pc = "failed"]
                ELSE [batch EXCEPT !.pc = "save"]
    /\ UNCHANGED nav_vars

\* Mindmap::save: spacing is normalized, the content goes to a temporary
\* file that replaces the target; or the temporary file cannot be made
BatchSave ==
    /\ batch.pc = "save"
    /\ \/ \E mm \in {normalize_spacing(batch.mm)} :
             batch' = [batch EXCEPT !.mm = mm, !.disk = join_lines(mm.lines),
                                    !.wrote = @ + 1, !.pc = "done"]
       \/ batch' = [batch EXCEPT !.mm = normalize_spacing(batch.mm), !.pc = "failed"]
    /\ UNCHANGED nav_vars

\* another process writes the target file while the batch runs
OtherWrite ==
    /\ ~BatchOver
    /\ batch.pc # "idle"
    /\ batch.others < MaxOtherWrites
    /\ \E c \in OtherFiles : batch' = [batch EXCEPT !.disk = c, !.others = @ + 1]
    /\ UNCHANGED nav_vars

InitBatch ==
    /\ IdleCtx
    /\ IdleCache
    /\ IdleTrav
    /\ ret = NoRet
    /\ doc = NoDoc
    /\ \/ \E d \in BOOLEAN, f \in BOOLEAN, input \in Inputs, file \in TargetFiles :
             batch = NewBatch(FALSE, d, f, input, file)
       \/ \E file \in TargetFiles : batch = NewBatch(TRUE, FALSE, FALSE, <<>>, file)

NextBatch ==
    \/ BatchBegin
    \/ BatchParse
    \/ BatchApply
    \/ BatchFinish
    \/ BatchRecheck
    \/ BatchSave
    \/ OtherWrite

SpecBatch == InitBatch /\ [][NextBatch]_vars

(***************************************************************************)
(* The commands on a mindmap in memory (lib.rs, cmd_* and apply_fixes).    *)
(* `doc` holds the mindmap, the mindmap before the last command, and what  *)
(* the last command was and returned.                                      *)
(***************************************************************************)
\* largest number of commands in a row
MaxDocOps == 3

N3 == NodeLine(3, Title(0, 3, "z"), Desc("c", FALSE, {2}))

\* files with unique node ids: adjacent node lines; a text line, two node
\* lines one empty line apart and a third right after, whose title has its
\* type prefix three times; node lines two empty lines apart
DocFiles ==
    { <<N1, N2>>,
      <<TextLine, N1, BlankLine, N2, N3>>,
      <<N1, BlankLine, BlankLine, N2, TextLine>> }

DocIds == {1, 2, 4}

\* titles and descriptions given to add and patch
AddTitles == {Title(0, 1, "n"), Title(0, 1, "a**b")}
AddDescs == {Desc("d", FALSE, {1})}
PatchNames == {None, Some("p"), Some("a**b")}
PatchDescs == {None, Some(Desc("e", FALSE, {2}))}

\* lines given to put: for node 1, for node 2 (with a reference to itself),
\* and one that is no node line
PutLines ==
    { NodeLine(1, Title(0, 1, "q"), Desc("e", FALSE, {2})),
      NodeLine(2, Title(0, 2, "r"), Desc("f", FALSE, {2})),
      TextLine }

all_but_doc == <<ctx_vars, env_vars, cache_vars, ret, trav_vars, call, batch>>

\* the record of a command that returned r
Ran(op, id, force, r) ==
    [mm |-> r.mm, prev |-> doc.mm, op |-> op, ok |-> r.ok, id |-> id, force |-> force,
     n |-> doc.n + 1, spacing |-> <<>>, title_fixes |-> {}]

DocAdd ==
    /\ doc.n < MaxDocOps
    /\ \E t \in AddTitles, d \in AddDescs :
          doc' = Ran("add", next_id(doc.mm), FALSE, cmd_add(doc.mm, t, d))
    /\ UNCHANGED all_but_doc

DocPut ==
    /\ doc.n < MaxDocOps
    /\ \E id \in DocIds, line \in PutLines :
          doc' = Ran("put", id, FALSE, cmd_put(doc.mm, id, line))
    /\ UNCHANGED all_but_doc

DocPatch ==
    /\ doc.n < MaxDocOps
    /\ \E id \in DocIds, name \in PatchNames, d \in PatchDescs :
          doc' = Ran("patch", id, FALSE, cmd_patch(doc.mm, id, name, d))
    /\ UNCHANGED all_but_doc

DocDeprecate ==
    /\ doc.n < MaxDocOps
    /\ \E id \in DocIds :
          doc' = Ran("deprecate", id, FALSE, cmd_deprecate(doc.mm, id, 1))
    /\ UNCHANGED all_but_doc

DocVerify ==
    /\ doc.n < MaxDocOps
    /\ \E id \in DocIds :
          doc' = Ran("verify", id, FALSE, cmd_verify(doc.mm, id))
    /\ UNCHANGED all_but_doc

DocDelete ==
    /\ doc.n < MaxDocOps
    /\ \E id \in DocIds, force \in BOOLEAN :
          doc' = Ran("delete", id, force, cmd_delete(doc.mm, id, force))
    /\ UNCHANGED all_but_doc

\* apply_fixes and its report
DocFix ==
    /\ doc.n < MaxDocOps
    /\ \E r \in {apply_fixes(doc.mm)} :
          doc' = [Ran("fix", 0, FALSE, MmOk(r.mm)) EXCEPT
                     !.spacing = r.spacing, !.title_fixes = r.title_fixes]
    /\ UNCHANGED all_but_doc

InitDoc ==
    /\ IdleCtx
    /\ IdleCache
    /\ IdleTrav
    /\ ret = NoRet
    /\ batch = NoBatch
    /\ \E lines \in DocFiles : doc = [NoDoc EXCEPT !.mm = from_string(lines)]

NextDoc ==
    \/ DocAdd
    \/ DocPut
    \/ DocPatch
    \/ DocDeprecate
    \/ DocVerify
    \/ DocDelete
    \/ DocFix

SpecDoc == InitDoc /\ [][NextDoc]_vars

(***************************************************************************)
(* Properties of a traversal.                                              *)
(***************************************************************************)

RECURSIVE Calls(_)
\* how many recursive steps fit under a depth limit of d when a file has
\* at most MaxRefs references: 1 + MaxRefs + ... + MaxRefs^d
Calls(d) == IF d = 0 THEN 1 ELSE 1 + MaxRefs * Calls(d - 1)

\* steps of a whole traversal: start and end, and for every recursive step
\* its return and at most four steps for each of its references
StepBound == 2 + Calls(max_depth) * (4 * MaxRefs + 1)

\* C5: a traversal over files with arbitrary references between them,
\* cycles and self-references included, ends (every step counts, the
\* count is bounded, and the handler can take a step until it is done or
\* has failed), and never has more than max_depth recursive steps nested.
C5_TraversalIsBounded ==
    /\ Nesting <= max_depth
    /\ Nesting = depth - (IF pend.held THEN 1 ELSE 0)
    /\ steps <= StepBound
    /\ (pc \in {"done", "failed"} => (stack = <<>> /\ depth = 0))
    /\ (pc \notin {"done", "failed"} => ENABLED NextTrav)

\* on a reference cycle that is not cut by the visited set, descend has
\* just refused to go below max_depth nested steps
C5_Witness ==
    /\ pc = "fail"
    /\ ret.op = "descend"
    /\ ret.res = "RecursionDepthExceeded"
    /\ ~marking
    /\ max_depth = MaxTravDepth
    /\ Nesting = max_depth
    /\ \A i \in 1..Len(stack) : stack[i].file = WsA

(***************************************************************************)
(* Properties of MindmapCache.                                             *)
(***************************************************************************)
InWorkspace(p) == starts_with(p, workspace_root)

\* what the reference names, seen from the directory of the base file, if
\* it exists
TargetOf(base_file, r) ==
    IF r.lead = "root"
    THEN canonicalize(fs, cwd, Root \o r.segs)
    ELSE canonicalize(fs, cwd, parent(base_file).path \o r.segs)

\* the reference is an absolute path on this build
AbsoluteHere(r) ==
    \/ r.lead = "root"
    \/ platform = "windows" /\ r.lead \in {"drive", "unc"}

C2_NothingOutsideIsTouched ==
    ret.op = "load" =>
        /\ \A i \in 1..Len(ret.io) : InWorkspace(ret.io[i][2])
        /\ (ret.target # <<>> /\ ~InWorkspace(ret.target))
              => (ret.res = "PathEscape" /\ ret.io = <<>> /\ ret.mm = NoMindmap)

\* a load through the link /ws/lnk -> /etc was refused
C2_Witness ==
    /\ ret.op = "load"
    /\ ret.res = "PathEscape"
    /\ fs[WsLnk].target = Etc
    /\ ret.target = Etc
    /\ workspace_root = Ws

\* C3: resolve_path fails with PathEscape whenever the canonicalized
\* resolution exists and is outside the workspace root; it never returns a
\* path that does not start with the workspace root.
C3_EscapeIsRejected ==
    ret.op = "resolve_path" =>
        /\ (ret.target # <<>> /\ ~InWorkspace(ret.target)) => ret.res = "PathEscape"
        /\ ret.res = "Ok" => (ret.path = ret.target /\ InWorkspace(ret.path))

\* "../../etc/passwd" from /ws/sub/M.md was refused
C3_Witness ==
    /\ ret.op = "resolve_path"
    /\ ret.res = "PathEscape"
    /\ ret.target = EtcPasswd
    /\ workspace_root = Ws

\* C4: a reference that begins with a root marker, a drive prefix or a UNC
\* prefix makes resolve_path and load fail with AbsolutePathRejected.
C4_AbsoluteIsRejected ==
    (ret.op \in {"resolve_path", "load"} /\ ret.lead \in {"root", "drive", "drive_rel", "unc"})
        => ret.res = "AbsolutePathRejected"

\* C6 as claimed: no path is parsed more than once over the life of a cache.
C6_ParsedAtMostOnceEver == \A p \in FsPaths : parse_count[p] <= 1

\* C6 amended: the parser runs only for a path that is not a cache key and
\* makes it one (so at most once between two clears), and a successful load
\* of a path that is a cache key returns the stored record without any
\* file access or parse.
C6_ParsedAtMostOnceWhileCached ==
    [][/\ \A p \in FsPaths :
            parse_count'[p] # parse_count[p]
                => /\ parse_count'[p] = parse_count[p] + 1
                   /\ p \notin DOMAIN cache
                   /\ p \in DOMAIN cache'
       /\ (ret'.op = "load" /\ ret'.res = "Ok" /\ ret'.path \in DOMAIN cache)
            => /\ ret'.mm = cache[ret'.path]
               /\ ret'.io = <<>>
               /\ parse_count' = parse_count
               /\ cache' = cache]_vars

\* /ws/A.md was loaded, cleared, loaded again, and then served from the cache
C6_Witness ==
    /\ ret.op = "load"
    /\ ret.res = "Ok"
    /\ ret.path = WsA
    /\ ret.io = <<>>
    /\ parse_count[WsA] = 2

\* C10: every key of the cache is a canonical path that starts with the
\* workspace root.
C10_KeysInsideWorkspace ==
    \A k \in DOMAIN cache :
        /\ InWorkspace(k)
        /\ canonicalize(fs, cwd, k) = IoOk(k)

\* two files are cached, one of them loaded through the link /ws/lnk
C10_Witness ==
    /\ DOMAIN cache = {WsA, WsB}
    /\ fs[WsLnk].target = WsA
    /\ ret.op = "load"
    /\ ret.res = "Ok"
    /\ ret.path = WsA

\* C11: load fails with CircularReference exactly when the path resolves
\* (the canonical target exists and is inside the workspace) and the
\* resolved path is in the visited set the caller supplied, also when the
\* path is a cache key; load does not change a visited set.
C11_CycleCheckBeforeCache ==
    [][ret'.op = "load" =>
        /\ (ret'.res = "CircularReference") <=>
               (ret'.target # <<>> /\ InWorkspace(ret'.target) /\ ret'.target \in ret'.vis)
        /\ visited' = visited]_vars

\* /ws/A.md is a cache key and a load of it with /ws/A.md visited failed
C11_Witness ==
    /\ ret.op = "load"
    /\ ret.res = "CircularReference"
    /\ ret.target = WsA
    /\ ret.vis = {WsA}
    /\ WsA \in DOMAIN cache

\* the file a load resolved to is longer than max_file_size
TooLarge(t) == metadata(fs, t).ok /\ metadata(fs, t).len > max_file_size

\* C12: a load that resolves to a path that is not visited and not cached
\* and whose file is longer than max_file_size fails with FileTooLarge
\* after the fs::metadata call alone: the file is not read, the parser is
\* not called, the cache is unchanged.  A file of exactly max_file_size
\* bytes is not too large.
C12_OversizedIsNotRead ==
    [][ret'.op = "load" =>
        /\ (/\ ret'.target # <<>>
            /\ InWorkspace(ret'.target)
            /\ ret'.target \notin ret'.vis
            /\ ret'.target \notin DOMAIN cache
            /\ TooLarge(ret'.target))
              => /\ ret'.res = "FileTooLarge"
                 /\ ret'.io = << <<"fs::metadata", ret'.target>> >>
                 /\ ret'.mm = NoMindmap
                 /\ cache' = cache
                 /\ parse_count' = parse_count
        /\ ret'.res = "FileTooLarge" => TooLarge(ret'.target)]_vars

\* /ws/sub/M.md (max_file_size + 1 bytes) was refused after /ws/B.md
\* (max_file_size bytes) had been loaded
C12_Witness ==
    /\ ret.op = "load"
    /\ ret.res = "FileTooLarge"
    /\ ret.target = WsSubM
    /\ WsB \in DOMAIN cache
    /\ WsSubM \notin DOMAIN cache

\* C13: a successful load returns the record that the first successful
\* load of the same file since the last clear returned, whatever the
\* spelling of the two references ("." and "..", a symbolic link); every
\* cache key is the canonical path of a regular file, so a file has one
\* entry and is counted once.
C13_SameFileSameRecord ==
    /\ DOMAIN call.origin = DOMAIN cache
    /\ \A k \in DOMAIN cache :
          /\ canonicalize(fs, cwd, k) = IoOk(k)
          /\ Node(fs, k).kind = "file"
    /\ (ret.op = "load" /\ ret.res = "Ok") =>
          /\ ret.path \in DOMAIN cache
          /\ ret.mm = cache[ret.path]
          /\ ret.mm = call.origin[ret.path].mm

\* /ws/A.md was loaded as "../A.md" and has now been loaded through the
\* link "../lnk": one entry, no file access
C13_Witness ==
    /\ ret.op = "load"
    /\ ret.res = "Ok"
    /\ ret.path = WsA
    /\ ret.io = <<>>
    /\ call.rel = Ref("rel", <<"..", "lnk">>)
    /\ call.origin[WsA].rel = Ref("rel", <<"..", "A.md">>)
    /\ DOMAIN cache = {WsA}

\* the node lines of the file at p if p is cached, counted on the file
NodesIfCached(p) == IF p \in DOMAIN cache THEN Node(fs, p).nodes ELSE 0

\* C14: stats reports the number of cached canonical paths and the sum of
\* the node counts of the cached files, leaves the cache alone, and
\* reports 0 and 0 for a new cache and directly after clear.
C14_StatsCountCache ==
    [][ret'.op = "stats" =>
        /\ DOMAIN cache \subseteq {WsA, WsB}
        /\ ret'.num_cached = (IF WsA \in DOMAIN cache THEN 1 ELSE 0)
                               + (IF WsB \in DOMAIN cache THEN 1 ELSE 0)
        /\ ret'.total_nodes = NodesIfCached(WsA) + NodesIfCached(WsB)
        /\ (ret.op \in {"new", "clear"}
              => (ret'.num_cached = 0 /\ ret'.total_nodes = 0))
        /\ cache' = cache]_vars

\* two files with 2 and 1 nodes are cached
C14_Witness ==
    /\ ret.op = "stats"
    /\ ret.num_cached = 2
    /\ ret.total_nodes = 3
    /\ \E p \in FsPaths : parse_count[p] = 2

\* C19: the cache keys change in two ways only: a successful load of a path
\* that is no key adds that one path and keeps every other entry, and clear
\* removes every key; a load that fails, a load that finds its path in the
\* cache, resolve_path and stats leave the mapping as it is.
C19_KeysChangeByLoadAndClear ==
    [][ /\ (ret'.op = "load" /\ ret'.res = "Ok" /\ ret'.path \notin DOMAIN cache) =>
              /\ DOMAIN cache' = DOMAIN cache \cup {ret'.path}
              /\ \A k \in DOMAIN cache : cache'[k] = cache[k]
        /\ (ret'.op = "load" /\ ret'.res = "Ok" /\ ret'.path \in DOMAIN cache) =>
              cache' = cache
        /\ (ret'.op = "load" /\ ret'.res # "Ok") => cache' = cache
        /\ ret'.op \in {"resolve_path", "stats"} => cache' = cache
        /\ ret'.op = "clear" => cache' = EmptyCache
        /\ cache' # cache => ret'.op \in {"load", "clear"} ]_vars

\* a load has failed and both records loaded before are still there
C19_Witness ==
    /\ ret.op = "load"
    /\ ret.res = "FileTooLarge"
    /\ DOMAIN cache = {WsA, WsB}

\* C22: load with no visited path fails with AbsolutePathRejected,
\* PathResolutionFailed or PathEscape exactly when resolve_path fails on the
\* same arguments, and with the same kind; when resolve_path succeeds and
\* load succeeds, the record returned is the one stored under the path
\* resolve_path returns and carries that path.
C22_LoadFollowsResolvePath ==
    (ret.op = "load" /\ ret.vis = {} /\ call.base # <<>>) =>
        \E t \in {resolve_path(call.base, call.rel)} :
            /\ t.res # "Ok" => ret.res = t.res
            /\ ret.res \in {"AbsolutePathRejected", "PathResolutionFailed", "PathEscape"}
                  => t.res = ret.res
            /\ ret.res = "Ok" =>
                  /\ t.res = "Ok"
                  /\ ret.path = t.path
                  /\ t.path \in DOMAIN cache
                  /\ cache[t.path] = ret.mm
                  /\ ret.mm.path = t.path

\* /ws/A.md was loaded through the link /ws/lnk
C22_Witness ==
    /\ ret.op = "load"
    /\ ret.vis = {}
    /\ ret.res = "Ok"
    /\ call.rel = Ref("rel", <<"..", "lnk">>)
    /\ ret.mm.path = WsA
    /\ DOMAIN cache = {WsA}

\* C23: the size limit is exclusive.  A load that reaches the size test (the
\* path resolves inside the workspace to a regular file that is neither
\* visited nor cached) fails with FileTooLarge exactly when the file is
\* longer than max_file_size, and then nothing but fs::metadata was called;
\* a file of exactly max_file_size bytes is read, parsed and cached.
C23_LimitIsExclusive ==
    [][(/\ ret'.op = "load"
        /\ ret'.target # <<>>
        /\ InWorkspace(ret'.target)
        /\ ret'.target \notin ret'.vis
        /\ ret'.target \notin DOMAIN cache
        /\ Node(fs, ret'.target).kind = "file")
          => /\ (ret'.res = "FileTooLarge") <=> (Node(fs, ret'.target).size > max_file_size)
             /\ ret'.res = "FileTooLarge" =>
                   \A n \in 1..Len(ret'.io) : ret'.io[n][1] = "fs::metadata"
             /\ Node(fs, ret'.target).size = max_file_size =>
                   /\ ret'.res = "Ok"
                   /\ ret'.target \in DOMAIN cache'
                   /\ ret'.io = << <<"fs::metadata", ret'.target>>,
                                   <<"fs::read_to_string", ret'.target>>,
                                   <<"Mindmap::from_string", ret'.target>> >>]_vars

\* /ws/B.md, of exactly max_file_size bytes, was read and cached
C23_Witness ==
    /\ ret.op = "load"
    /\ ret.res = "Ok"
    /\ ret.path = WsB
    /\ Len(ret.io) = 3
    /\ fs[WsB].size = max_file_size
    /\ WsB \in DOMAIN cache

(***************************************************************************)
(* Properties of NavigationContext.                                        *)
(***************************************************************************)

\* C1: in every state reachable by descend, guard release, mark_visited,
\* is_visited and clear_visited, the depth is between 0 and max_depth.
C1_DepthWithinBounds == 0 <= depth /\ depth <= max_depth

\* all guards released again after a descent to the limit, with marks made
C1_Witness ==
    /\ ret.op = "drop"
    /\ depth = 0
    /\ guards = 0
    /\ max_depth = MaxDepthArg
    /\ visited = VisitPaths

\* C7: with max_depth guards outstanding (depth = max_depth) the next
\* descend fails with RecursionDepthExceeded, hands out no guard and leaves
\* depth and the visited set as they were; max_depth = 0 included.
C7_DescendAtLimitFails ==
    [][(depth = max_depth /\ guards = max_depth /\ ret'.op = "descend")
        => /\ ret'.res = "RecursionDepthExceeded"
           /\ depth' = depth
           /\ guards' = guards
           /\ visited' = visited]_vars

\* a descend has just failed at the limit of a context that allows descents
C7_Witness ==
    /\ ret.op = "descend"
    /\ ret.res = "RecursionDepthExceeded"
    /\ max_depth > 0
    /\ depth = max_depth
    /\ guards = max_depth

\* C8: the depth equals the number of guards handed out by successful
\* descends and not yet released (a failed descend hands out none).
C8_DepthCountsLiveGuards == depth = guards

\* two guards are live after a failed third descend
C8_Witness ==
    /\ ret.op = "descend"
    /\ ret.res = "RecursionDepthExceeded"
    /\ guards = 2
    /\ max_depth = 2

\* C9: releasing a guard lowers the depth by exactly one, and the depth is
\* 0 again once the last of the nested guards is released.
C9_ReleaseDecrementsByOne ==
    [][ret'.op = "drop" /\ guards' # guards
        => /\ depth' = depth - 1
           /\ depth' >= 0
           /\ (guards' = 0 => depth' = 0)]_vars

\* one of several nested guards has been released, the others are live
C9_Witness ==
    /\ ret.op = "drop"
    /\ depth = 2
    /\ guards = 2
    /\ max_depth >= 3

\* C15: the visited set is a set.  mark_visited(p) adds p and nothing
\* else, and changes neither the set nor its size when p is in it;
\* is_visited(p) answers whether p is in the set and changes nothing;
\* clear_visited empties it; descend, a guard release and num_visited
\* leave it alone.  So is_visited(p) holds exactly when p was marked since
\* the context was created or last cleared.
C15_VisitedIsASet ==
    [][/\ ret'.op = "mark_visited" =>
            /\ visited' = visited \cup {ret'.arg}
            /\ ret'.arg \in visited =>
                  (visited' = visited /\ Cardinality(visited') = Cardinality(visited))
            /\ ret'.arg \notin visited =>
                  Cardinality(visited') = Cardinality(visited) + 1
       /\ ret'.op = "is_visited" =>
            /\ ret'.res = "true" <=> ret'.arg \in visited
            /\ UNCHANGED ctx_vars
       /\ ret'.op = "num_visited" =>
            /\ ret'.res = Cardinality(visited)
            /\ UNCHANGED ctx_vars
       /\ ret'.op = "clear_visited" => visited' = {}
       /\ ret'.op \in {"descend", "drop"} => visited' = visited]_vars

\* with two of three paths marked, is_visited of the third is false
C15_Witness ==
    /\ ret.op = "is_visited"
    /\ ret.res = "false"
    /\ ret.arg = WsB
    /\ visited = {WsA, WsSubM}

(***************************************************************************)
(* Properties of the batch command.                                        *)
(***************************************************************************)
RECURSIVE Replayed(_)
\* the base content with the first k operations of the input applied in
\* input order
Replayed(k) ==
    IF k = 0 THEN from_string(content_lines(batch.base))
    ELSE apply_op(Replayed(k - 1), batch.ops[k]).mm

\* every line of the input parsed and every operation applied
AllApplied ==
    /\ Len(batch.ops) = Len(batch.input)
    /\ \A k \in 1..Len(batch.ops) : apply_op(Replayed(k - 1), batch.ops[k]).ok

\* what a batch that went through writes
Committed ==
    LET mm == Replayed(Len(batch.ops))
    IN join_lines(normalize_spacing(IF batch.fix THEN apply_fixes(mm).mm ELSE mm).lines)

\* C16: the batch command applies the operations in input order to a copy
\* in memory and writes the target file once, at the end, only if every
\* line parsed, every operation applied and --dry-run was not given; when
\* an operation fails, and with --dry-run, the command does not write, and
\* the file is as it was unless another process wrote it.
C16_BatchAllOrNothing ==
    /\ batch.pc = "replay" => (batch.mm = Replayed(batch.i - 1) /\ batch.wrote = 0)
    /\ batch.wrote <= 1
    /\ batch.wrote = 1 =>
          /\ batch.pc = "done"
          /\ ~batch.dry_run
          /\ AllApplied
          /\ batch.others = 0 => batch.disk = Committed
    /\ (batch.pc \in {"failed", "dry"} \/ batch.dry_run) =>
          /\ batch.wrote = 0
          /\ batch.others = 0 => batch.disk = batch.disk0

\* the second of two operations failed after the first had changed the
\* working copy; the file is as it was
C16_Witness ==
    /\ batch.pc = "failed"
    /\ ~batch.dry_run
    /\ Len(batch.ops) = 2
    /\ batch.i = 2
    /\ batch.mm # from_string(content_lines(batch.base))
    /\ batch.others = 0
    /\ batch.disk = batch.disk0

(***************************************************************************)
(* Properties of a traversal of the diamond                                *)
(***************************************************************************)
\* the handler stands at the reference of /ws/C.md to D.md, after /ws/D.md
\* was entered once through /ws/B.md
SecondArrival ==
    /\ fs = FsDiamond
    /\ stack # <<>>
    /\ Top.file = WsC
    /\ Top.i = 1
    /\ pc \in {"fail", "descend", "load", "enter"}
    /\ WsD \in DOMAIN cache

\* C17: with marking and nothing unmarked on the way back, the second
\* arrival at D in the diamond A->B, A->C, B->D, C->D is refused by the cycle
\* check: is_visited answers true, load() with the visited set fails with
\* CircularReference, and D is on no frame of the stack (no cycle).
C17_DiamondIsRefused ==
    (marking /\ SecondArrival) =>
        /\ pc = "fail"
        /\ ret = [op |-> "is_visited", res |-> "true", arg |-> WsD]
        /\ WsD \in visited
        /\ \A k \in 1..Len(stack) : stack[k].file # WsD
        /\ resolve_path(WsC, RefTo("D.md")).res = "Ok"
        /\ ENABLED (load(WsC, RefTo("D.md"), visited) /\ ret'.res = "CircularReference")

C17_Witness ==
    /\ marking
    /\ SecondArrival
    /\ pc = "fail"
    /\ Len(stack) = 2
    /\ stack[1].file = WsA
    /\ visited = {WsA, WsB, WsC, WsD}

(***************************************************************************)
(* Properties of the cache while the files change                          *)
(***************************************************************************)
\* this step is a call of load()
LoadStep == fs' = fs /\ call'.base # <<>>

\* the call returned the record stored under k, called nothing of the file
\* system after the resolution and left the cache and the parse counts alone
ReturnsStored(k) ==
    /\ ret'.res = "Ok"
    /\ ret'.mm = cache[k]
    /\ ret'.io = <<>>
    /\ cache' = cache
    /\ parse_count' = parse_count

\* C18 as stated: a load with the arguments that made k a cache key, with
\* k not among the visited paths, returns the stored record whether or not
\* the file still exists.
C18_HitIgnoresExistence ==
    [][ LoadStep =>
          \A k \in DOMAIN cache :
             ( /\ call.origin[k].base = call'.base
               /\ call.origin[k].rel = call'.rel
               /\ k \notin ret'.vis ) => ReturnsStored(k) ]_vars

\* C18 (amended): when resolve_path, which asks the file system and needs
\* the target to exist, yields a cache key k that is not among the visited
\* paths, load() returns the record stored under k without fs::metadata,
\* without reading and without parsing, whatever is at k now: a larger
\* file, other content, a directory.
C18_HitIgnoresSizeAndContent ==
    [][ LoadStep =>
          \E t \in {resolve_path(call'.base, call'.rel)} :
             ( /\ t.res = "Ok"
               /\ t.path \in DOMAIN cache
               /\ t.path \notin ret'.vis ) => ReturnsStored(t.path) ]_vars

\* the last call was a hit on /ws/A.md, which is now too large to be loaded
C18_Witness ==
    /\ ret.op = "load"
    /\ ret.res = "Ok"
    /\ ret.io = <<>>
    /\ ret.path = WsA
    /\ ret.mm = cache[WsA]
    /\ ret.mm.nodes = 2
    /\ fs[WsA] = File(max_file_size + 1, 2)

(***************************************************************************)
(* Properties of resolve_path for base files without a directory part      *)
(***************************************************************************)
\* the base file has no parent directory: Path::parent is None or empty
NoParentDir(base_file) == ~parent(base_file).some \/ parent(base_file).path = <<>>

\* C21: for a base file without a parent directory resolve_path anchors the
\* reference at the workspace root: it returns the canonical path of
\* workspace_root joined with the reference when that exists inside the
\* workspace, and fails otherwise.
C21_AnchoredAtRoot ==
    (ret.op = "resolve_path" /\ call.base # <<>> /\ NoParentDir(call.base)) =>
        \E want \in {canonicalize(fs, cwd, workspace_root \o call.rel.segs)} :
            IF want.ok /\ InWorkspace(want.path)
            THEN ret.res = "Ok" /\ ret.path = want.path
            ELSE ret.res # "Ok"

\* C21 for the base file "/", whose parent is None
C21_RootBaseAnchoredAtRoot ==
    (ret.op = "resolve_path" /\ call.base = Root) =>
        \E want \in {canonicalize(fs, cwd, workspace_root \o call.rel.segs)} :
            IF want.ok /\ InWorkspace(want.path)
            THEN ret.res = "Ok" /\ ret.path = want.path
            ELSE ret.res # "Ok"

(***************************************************************************)
(* Frame and limit properties of NavigationContext                         *)
(***************************************************************************)
\* C24: descend, whether it succeeds or fails, and the release of a guard
\* leave the visited set as it is; mark_visited, is_visited, clear_visited
\* and num_visited leave depth and max_depth as they are; depth changes
\* only in descend and in the release of a guard, max_depth never.
C24_DepthAndVisitedAreIndependent ==
    [][ /\ ret'.op \in {"descend", "drop"} => visited' = visited
        /\ ret'.op \in {"mark_visited", "is_visited", "clear_visited", "num_visited"}
              => (depth' = depth /\ max_depth' = max_depth)
        /\ depth' # depth => ret'.op \in {"descend", "drop"}
        /\ visited' # visited => ret'.op \in {"mark_visited", "clear_visited"}
        /\ max_depth' = max_depth ]_vars

\* a descend has failed at the limit while paths were marked
C24_Witness ==
    /\ ret.op = "descend"
    /\ ret.res = "RecursionDepthExceeded"
    /\ depth > 0
    /\ Cardinality(visited) = 2

\* C25: at_max_depth is true exactly when depth >= max_depth, and descend
\* succeeds exactly when at_max_depth was false before the call; it fails
\* with RecursionDepthExceeded exactly when at_max_depth was true.
C25_DescendFailsExactlyAtMaxDepth ==
    [][ /\ at_max_depth <=> (depth >= max_depth)
        /\ ret'.op = "descend" =>
              /\ (ret'.res = "Ok") <=> ~at_max_depth
              /\ (ret'.res = "RecursionDepthExceeded") <=> at_max_depth
              /\ ret'.res = "Ok" => depth' = depth + 1
              /\ ret'.res # "Ok" => depth' = depth ]_vars

\* a descend has succeeded from the last level below the limit: now
\* at_max_depth is true
C25_Witness ==
    /\ ret.op = "descend"
    /\ ret.res = "Ok"
    /\ at_max_depth
    /\ depth = max_depth
    /\ max_depth = 2

(***************************************************************************)
(* The batch command and other writers of the target file                  *)
(***************************************************************************)
\* C26: a batch replaces the target file only when the content that is on
\* disk at that moment is the content read at the start, so it never
\* overwrites what another process wrote after the batch began.
C26_NoLostUpdate ==
    [][batch'.wrote > batch.wrote => blake3_hash(batch.disk) = blake3_hash(batch.base)]_vars

\* what does hold: the file is replaced only after a re-read whose hash was
\* the base hash, and a change that is on disk at the re-read makes the
\* batch fail without writing
C26_RecheckedBeforeSave ==
    [][ /\ batch'.wrote > batch.wrote => batch.pc = "save"
        /\ (batch.pc = "commit" /\ blake3_hash(batch.disk) # blake3_hash(batch.base))
              => (batch'.pc \in {"commit", "failed"} /\ batch'.wrote = batch.wrote)
        /\ (batch.pc # "save" /\ batch'.pc = "save")
              => (batch.pc = "commit" /\ blake3_hash(batch.disk) = blake3_hash(batch.base)) ]_vars

(***************************************************************************)
(* Properties of the commands on a mindmap in memory                       *)
(***************************************************************************)
\* C27: apply_fixes is idempotent: a call right after a call reports no
\* spacing change and no title fix and leaves the lines as they are.
C27_FixIsIdempotent ==
    [][(doc.op = "fix" /\ doc'.op = "fix" /\ doc'.n = doc.n + 1) =>
          /\ doc'.spacing = <<>>
          /\ doc'.title_fixes = {}
          /\ doc'.mm.lines = doc.mm.lines]_vars

\* the index of mm is consistent: by_id leads from the id of every node to
\* its position, the line at its line_index parses to a node of its id, and
\* no two nodes have the same id or the same line_index
IndexConsistent(mm) ==
    \A i \in 1..Len(mm.nodes) :
        /\ mm.nodes[i].id \in DOMAIN mm.by_id
        /\ mm.by_id[mm.nodes[i].id] = i
        /\ mm.nodes[i].line_index \in 1..Len(mm.lines)
        /\ \E p \in {parse_node_line(mm.lines[mm.nodes[i].line_index], mm.nodes[i].line_index)} :
              p.ok /\ p.node.id = mm.nodes[i].id
        /\ \A j \in 1..Len(mm.nodes) :
              j # i => /\ mm.nodes[j].id # mm.nodes[i].id
                       /\ mm.nodes[j].line_index # mm.nodes[i].line_index

\* C28: after any sequence of commands on a mindmap that was loaded with
\* unique node ids the index is consistent.
C28_IndexStaysConsistent == IndexConsistent(doc.mm)

\* what does hold: the index is consistent as long as no node has a title
\* with "**" in it
C28_ConsistentWithoutStars ==
    (\A i \in 1..Len(doc.mm.nodes) : ~HasStars(doc.mm.nodes[i].raw_title))
        => IndexConsistent(doc.mm)

\* a node without its position in the file
Strip(n) ==
    [id |-> n.id, raw_title |-> n.raw_title, description |-> n.description,
     references |-> n.references]

\* some node of mm refers to id in its description
Referenced(mm, id) == \E i \in 1..Len(mm.nodes) : id \in mm.nodes[i].references

\* C29: cmd_delete without force on a node that some node refers to fails,
\* and so does cmd_delete of an id that is not there; lines, nodes and by_id
\* are then as before.  With force, or when no node refers to it, the one
\* node and its one line are removed and all other nodes and lines keep
\* their content and their order.
C29_DeleteRemovesOneOrNothing ==
    [][(doc'.op = "delete" /\ doc'.n = doc.n + 1) =>
          IF doc'.id \notin DOMAIN doc.mm.by_id
             \/ (Referenced(doc.mm, doc'.id) /\ ~doc'.force)
          THEN ~doc'.ok /\ doc'.mm = doc.mm
          ELSE /\ doc'.ok
               /\ \E idx \in {doc.mm.by_id[doc'.id]} :
                     /\ doc.mm.nodes[idx].id = doc'.id
                     /\ doc'.mm.lines = RemoveAt(doc.mm.lines, doc.mm.nodes[idx].line_index)
                     /\ [i \in 1..Len(doc'.mm.nodes) |-> Strip(doc'.mm.nodes[i])]
                           = RemoveAt([i \in 1..Len(doc.mm.nodes) |-> Strip(doc.mm.nodes[i])], idx)
               /\ DOMAIN doc'.mm.by_id = DOMAIN doc.mm.by_id \ {doc'.id}
               /\ \A i \in 1..Len(doc'.mm.nodes) :
                     /\ doc'.mm.by_id[doc'.mm.nodes[i].id] = i
                     /\ doc'.mm.lines[doc'.mm.nodes[i].line_index].id = doc'.mm.nodes[i].id]_vars

\* node 1, to which node 2 refers, was not deleted without force
C29_Witness ==
    /\ doc.op = "delete"
    /\ ~doc.ok
    /\ ~doc.force
    /\ doc.id = 1
    /\ doc.id \in DOMAIN doc.mm.by_id
    /\ Referenced(doc.mm, 1)
    /\ doc.mm = doc.prev

====
